---- MODULE Spec2Model ----
(***************************************************************************)
(* A model of the section-based extractor of scraper.ts (the TypeScript    *)
(* generation of src/scraper.js, lines 469-1300): the geometry kernel, the *)
(* fuzzy anchor matcher, the grid reconstructor, the section segmenter,    *)
(* the field extractor and the page loop of parsePdf and main.             *)
(*                                                                         *)
(* Numbers are integers.  A string is a sequence of one-character strings, *)
(* so that trimming, whitespace removal, case folding and edit distance    *)
(* are computed and not assumed.                                           *)
(***************************************************************************)
EXTENDS Integers, Sequences, FiniteSets, TLC

VARIABLES
    runText,      \* findStartElements: the joined texts of rightElements (raw)
    edits,        \* how many character edits separate runText from the label
    recorded,     \* findStartElements: the threshold pushed for runText
    pageElements, \* parsePdf: elements, the text elements of the current page
    pageCells,    \* parsePdf: cells, the cells of the current page
    startElements,             \* parsePdf: what findStartElements returned
    applicationElementGroups,  \* parsePdf: the sections of the current page
    segmented,    \* TRUE once lines 1143-1186 have run on the page
    lines,        \* parseCells: the line-candidate rectangles, in stream order
    grid,         \* the ruled grid that lines draws, or NoGrid
    gridCells,    \* parseCells: the cells returned for lines
    reconstructed,\* TRUE once parseCells has run on lines
    sectionElements,        \* parseApplicationElements: elements
    sectionCells,           \* parseApplicationElements: cells
    developmentApplication, \* what parseApplicationElements gave for the section
    sectionParsed,          \* TRUE once parseApplicationElements has run on it
    pc,               \* main and parsePdf: the await the run stands at
    selectedPdfUrls,  \* main: how many documents were selected
    documentIndex,    \* main: which selected document is being parsed (from 1)
    numPages,         \* pdf.numPages of the document being parsed
    pageIndex,        \* parsePdf: pageIndex
    pdf,              \* parsePdf: the decode getDocument gave last, 0 for none
    pdfPage,          \* parsePdf: page, what getPage gave
    liveDecodes,      \* the decodes created and not destroyed
    decodes,          \* how many decodes getDocument has created
    outcomes,         \* what parseApplicationElements gave, section by section
    developmentApplications, \* parsePdf: developmentApplications
    database,         \* the rows insertRow has written
    rectangles,   \* the rectangles a function of the geometry kernel is given
    segments,     \* the lines intersectLines is given
    applied,      \* the function of the geometry kernel that was called
    result,       \* what it returned
    operators,        \* parseCells: the operators walked so far, fnArray and argsArray
    transform,        \* parseCells: transform, <<>> for undefined
    transformStack,   \* parseCells: transformStack
    previousRectangle,\* parseCells: previousRectangle, <<>> for undefined
    walkThrew,        \* TRUE once the walk has raised a TypeError
    tableLayout,      \* the table printed on the page: its columns and its data rows
    tableCells,       \* table-based parsePdf: cells
    tableElements,    \* table-based parsePdf: elements
    tableApplications,\* table-based parsePdf: what the page pushed
    tableParsed,      \* TRUE once lines 292-389 have run on the page
    neighbours,   \* the elements the greedy extension looks among
    runElement,   \* the do-while loop of lines 802-820: rightElement
    runElements,  \* the same loop: rightElements
    runMatches,   \* the same loop: matches
    runPc,        \* where the loop stands: "place", "loop", "broke" or "ended"
    rightCall     \* the last call of getRightElement: <<[element, returned]>>

matchVars == <<runText, edits, recorded>>
pageVars == <<pageElements, pageCells, startElements, applicationElementGroups, segmented>>
gridVars == <<lines, grid, gridCells, reconstructed>>
fieldVars == <<sectionElements, sectionCells, developmentApplication, sectionParsed>>
runVars == <<pc, selectedPdfUrls, documentIndex, numPages, pageIndex, pdf, pdfPage,
             liveDecodes, decodes, outcomes, developmentApplications, database>>
geomVars == <<rectangles, segments, applied, result>>
streamVars == <<operators, transform, transformStack, previousRectangle, walkThrew>>
tableVars == <<tableLayout, tableCells, tableElements, tableApplications, tableParsed>>
rightVars == <<neighbours, runElement, runElements, runMatches, runPc, rightCall>>
vars == <<matchVars, pageVars, gridVars, fieldVars, runVars, geomVars, streamVars, tableVars,
          rightVars>>

\* What the actions of one part of the model leave alone.
exceptMatch ==
    <<pageVars, gridVars, fieldVars, runVars, geomVars, streamVars, tableVars, rightVars>>
exceptPage ==
    <<matchVars, gridVars, fieldVars, runVars, geomVars, streamVars, tableVars, rightVars>>
exceptGrid ==
    <<matchVars, pageVars, fieldVars, runVars, geomVars, streamVars, tableVars, rightVars>>
exceptFields ==
    <<matchVars, pageVars, gridVars, runVars, geomVars, streamVars, tableVars, rightVars>>
exceptRun ==
    <<matchVars, gridVars, fieldVars, geomVars, streamVars, tableVars, rightVars>>
exceptGeom ==
    <<matchVars, pageVars, gridVars, fieldVars, runVars, streamVars, tableVars, rightVars>>
exceptStream == <<matchVars, pageVars, fieldVars, runVars, geomVars, tableVars, rightVars, grid,
                  gridCells, reconstructed>>
exceptTable ==
    <<matchVars, pageVars, gridVars, fieldVars, runVars, geomVars, streamVars, rightVars>>
exceptRight ==
    <<matchVars, pageVars, gridVars, fieldVars, runVars, geomVars, streamVars, tableVars>>

(***************************************************************************)
(* Bounds of the model.                                                    *)
(***************************************************************************)
MaxEdits == 3
MaxElements == 3
MaxCells == 2
MaxLines == 3
MaxRules == 6
MaxPages == 2
MaxSections == 2
MaxRotatedSections == 1

(***************************************************************************)
(* Program constants.                                                      *)
(***************************************************************************)
Tolerance == 3
PageLimit == 500

(***************************************************************************)
(* Small helpers.                                                          *)
(***************************************************************************)
Min2(a, b) == IF a < b THEN a ELSE b
Max2(a, b) == IF a > b THEN a ELSE b
Abs(a) == IF a < 0 THEN -a ELSE a
Range(s) == {s[i] : i \in 1..Len(s)}
least(S) == CHOOSE n \in S : \A m \in S : n <= m
greatest(S) == CHOOSE n \in S : \A m \in S : n >= m

(***************************************************************************)
(* Strings.                                                                *)
(***************************************************************************)
UpperChars == <<"A", "C", "D", "E", "G", "I", "L", "M", "N", "O", "P", "R", "S", "T", "V">>
LowerChars == <<"a", "c", "d", "e", "g", "i", "l", "m", "n", "o", "p", "r", "s", "t", "v">>

\* String.prototype.toLowerCase and toUpperCase, one character.
lowerChar(c) ==
    IF \E i \in 1..Len(UpperChars) : UpperChars[i] = c
    THEN LowerChars[CHOOSE i \in 1..Len(UpperChars) : UpperChars[i] = c]
    ELSE c
upperChar(c) ==
    IF \E i \in 1..Len(LowerChars) : LowerChars[i] = c
    THEN UpperChars[CHOOSE i \in 1..Len(LowerChars) : LowerChars[i] = c]
    ELSE c
toLowerCase(s) == [i \in 1..Len(s) |-> lowerChar(s[i])]
toUpperCase(s) == [i \in 1..Len(s) |-> upperChar(s[i])]

\* The characters the regular expression class \s matches (of those modelled).
isSpace(c) == c = " "

\* text.replace(/\s/g, "")
removeSpaces(s) == SelectSeq(s, LAMBDA c : ~isSpace(c))

\* text.replace(/[\s,\-_]/g, "").toLowerCase()
condense(s) == toLowerCase(SelectSeq(s, LAMBDA c : ~(isSpace(c) \/ c \in {",", "-", "_"})))

RECURSIVE joinFrom(_, _, _)
\* The entries numbered lo to hi of an array of texts, one after the other.
joinFrom(array, lo, hi) ==
    IF lo > hi THEN <<>>
    ELSE IF lo = hi THEN array[lo]
    ELSE joinFrom(array, lo, (lo + hi) \div 2) \o joinFrom(array, ((lo + hi) \div 2) + 1, hi)

\* texts.join("")
join(array) == joinFrom(array, 1, Len(array))

trimStart(s) ==
    LET kept == {i \in 1..Len(s) : ~isSpace(s[i])}
    IN  IF kept = {} THEN <<>> ELSE SubSeq(s, least(kept), Len(s))
trimEnd(s) ==
    LET kept == {i \in 1..Len(s) : ~isSpace(s[i])}
    IN  IF kept = {} THEN <<>> ELSE SubSeq(s, 1, greatest(kept))
\* String.prototype.trim
trim(s) == trimEnd(trimStart(s))

\* text.replace(/\s\s+/g, " "): every run of two or more spaces becomes one space.
collapseSpaces(s) ==
    join([i \in 1..Len(s) |->
             IF isSpace(s[i]) /\ i > 1 /\ isSpace(s[i - 1]) THEN <<>> ELSE <<s[i]>>])

\* text.replace(/^:/, "")
stripLeadingColon(s) == IF s # <<>> /\ Head(s) = ":" THEN Tail(s) ELSE s

startsWith(s, c) == s # <<>> /\ Head(s) = c

(***************************************************************************)
(* didyoumean2 with thresholdType EDIT_DISTANCE: the Levenshtein distance  *)
(* of the input to the single candidate, compared with the threshold.      *)
(***************************************************************************)
\* The length of the longest common prefix of a and b.
commonPrefix(a, b) ==
    LET differ == {i \in 1..Min2(Len(a), Len(b)) : a[i] # b[i]}
    IN  IF differ = {} THEN Min2(Len(a), Len(b)) ELSE least(differ) - 1

\* What is left of a after the longest prefix it shares with b.
afterPrefix(a, b) == SubSeq(a, commonPrefix(a, b) + 1, Len(a))

\* For texts with no common prefix: TRUE when one edit (a substitution, a
\* deletion or an insertion) makes them equal.
restsWithin1(rest1, rest2) ==
    IF rest1 = <<>> THEN Len(rest2) <= 1
    ELSE IF rest2 = <<>> THEN Len(rest1) <= 1
    ELSE Tail(rest1) = Tail(rest2) \/ Tail(rest1) = rest2 \/ rest1 = Tail(rest2)

\* TRUE when a and b are at Levenshtein distance at most 1.
levenWithin1(a, b) == restsWithin1(afterPrefix(a, b), afterPrefix(b, a))

\* For texts with no common prefix: TRUE when one edit leaves texts at
\* distance at most 1.
restsWithin2(rest1, rest2) ==
    IF rest1 = <<>> THEN Len(rest2) <= 2
    ELSE IF rest2 = <<>> THEN Len(rest1) <= 2
    ELSE \/ levenWithin1(Tail(rest1), Tail(rest2))
         \/ levenWithin1(Tail(rest1), rest2)
         \/ levenWithin1(rest1, Tail(rest2))

\* TRUE when a and b are at Levenshtein distance at most 2.
levenWithin2(a, b) == restsWithin2(afterPrefix(a, b), afterPrefix(b, a))

\* TRUE when a and b are at Levenshtein distance at most k, for the thresholds
\* 0, 1 and 2 the code asks for.
levenWithin(a, b, k) ==
    IF k = 0 THEN a = b ELSE IF k = 1 THEN levenWithin1(a, b) ELSE levenWithin2(a, b)

\* TRUE when didYouMean(input, [ candidate ], { caseSensitive: false,
\* thresholdType: EDIT_DISTANCE, threshold: threshold, ... }) !== null.
didYouMean(input, candidate, threshold) ==
    levenWithin(toLowerCase(trim(input)), toLowerCase(trim(candidate)), threshold)

(***************************************************************************)
(* findStartElements and findTextBounds: what one step of the greedy       *)
(* extension does with the condensed text of the run.                      *)
(***************************************************************************)
FindText == <<"A", "P", "P", "L", "I", "C", "A", "T", "I", "O", "N", "N", "O", ":">>

NoMatch == -1
TooLong == -2

\* Lines 808-816 (and 742-750): TooLong when the loop breaks, otherwise the
\* threshold of the match pushed for text, or NoMatch when none is pushed.
matchThresholdShortGuard(text, findText) ==
    IF Len(text) > Len(findText) + 2 THEN TooLong
    ELSE IF Len(text) >= Len(findText) - 1
         THEN IF text = toLowerCase(findText) THEN 0
              ELSE IF didYouMean(text, findText, 1) THEN 1
              ELSE IF didYouMean(text, findText, 2) THEN 2
              ELSE NoMatch
         ELSE NoMatch

matchThreshold(text, findText) ==
    IF Len(text) > Len(findText) + 2 THEN TooLong
    ELSE IF Len(text) >= Len(findText) - 2
         THEN IF text = toLowerCase(findText) THEN 0
              ELSE IF didYouMean(text, findText, 1) THEN 1
              ELSE IF didYouMean(text, findText, 2) THEN 2
              ELSE NoMatch
         ELSE NoMatch

(***************************************************************************)
(* Rectangles, elements and cells.  An element is a record                 *)
(* [id, text, x, y, width, height]; id stands for the identity of the      *)
(* JavaScript object (two elements with equal fields are two objects).     *)
(* A cell is [x, y, width, height, elements].                              *)
(***************************************************************************)
MAX_VALUE == 1000000000
Infinity == 2000000000

\* The value `undefined' where an element is expected, and the initial
\* closestElement of getRightElement (line 707).
undefined == [id |-> 0, text |-> <<>>, x |-> MAX_VALUE, y |-> MAX_VALUE, width |-> 0, height |-> 0]

\* A quotient num / den that the code only compares with a constant.
exceeds(q, k) == IF q.den = 0 THEN q.num > 0 ELSE q.num > k * q.den

getArea(rectangle) == rectangle.width * rectangle.height

\* The same with rectangles that only touch taken as not meeting.
intersectStrictly(rectangle1, rectangle2) ==
    LET x1 == Max2(rectangle1.x, rectangle2.x)
        y1 == Max2(rectangle1.y, rectangle2.y)
        x2 == Min2(rectangle1.x + rectangle1.width, rectangle2.x + rectangle2.width)
        y2 == Min2(rectangle1.y + rectangle1.height, rectangle2.y + rectangle2.height)
    IN  IF x2 > x1 /\ y2 > y1
        THEN [x |-> x1, y |-> y1, width |-> x2 - x1, height |-> y2 - y1]
        ELSE [x |-> 0, y |-> 0, width |-> 0, height |-> 0]

intersectRectangles(rectangle1, rectangle2) ==
    LET x1 == Max2(rectangle1.x, rectangle2.x)
        y1 == Max2(rectangle1.y, rectangle2.y)
        x2 == Min2(rectangle1.x + rectangle1.width, rectangle2.x + rectangle2.width)
        y2 == Min2(rectangle1.y + rectangle1.height, rectangle2.y + rectangle2.height)
    IN  IF x2 >= x1 /\ y2 >= y1
        THEN [x |-> x1, y |-> y1, width |-> x2 - x1, height |-> y2 - y1]
        ELSE [x |-> 0, y |-> 0, width |-> 0, height |-> 0]

union(rectangle1, rectangle2) ==
    LET x == Min2(rectangle1.x, rectangle2.x)
        y == Min2(rectangle1.y, rectangle1.y)
        width == Max2(Max2(rectangle1.x + rectangle1.width, rectangle2.x + rectangle2.width) - x, 0)
        height == Max2(Max2(rectangle1.y + rectangle1.height, rectangle2.y + rectangle2.height) - y, 0)
    IN  [x |-> x, y |-> y, width |-> width, height |-> height]

getPercentageOfElementInCell(element, cell) ==
    LET elementArea == getArea(element)
        intersectionArea == getArea(intersectRectangles(cell, element))
    IN  IF elementArea = 0 THEN [num |-> 0, den |-> 1]
        ELSE [num |-> intersectionArea * 100, den |-> elementArea]

getPercentageOfElementInRectangle(element, rectangle) ==
    LET elementArea == getArea(element)
        intersectionArea == getArea(intersectRectangles(rectangle, element))
    IN  IF elementArea = 0 THEN [num |-> 0, den |-> 1]
        ELSE [num |-> intersectionArea * 100, den |-> elementArea]

\* Four times the value of the code (the code halves the heights).
calculateDistance(element1, element2) ==
    IF element2.x = MAX_VALUE THEN Infinity
    ELSE IF 5 * element2.x < 5 * (element1.x + element1.width) - element1.width
         THEN MAX_VALUE
    ELSE LET dx == element2.x - (element1.x + element1.width)
             dy2 == (2 * element2.y + element2.height) - (2 * element1.y + element1.height)
         IN  4 * dx * dx + dy2 * dy2

isVerticalOverlap(element1, element2) ==
    /\ element2.y < element1.y + element1.height
    /\ element2.y + element2.height > element1.y

getVerticalOverlapPercentage(element1, element2) ==
    LET y1 == Max2(element1.y, element2.y)
        y2 == Min2(element1.y + element1.height, element2.y + element2.height)
    IN  IF y2 < y1 THEN [num |-> 0, den |-> 1]
        ELSE [num |-> (y2 - y1) * 100, den |-> element2.height]

\* Lines 585-593: the least y among the start element and the elements that
\* overlap it vertically by more than 50%.
getRowTop(elements, startElement) ==
    least({startElement.y} \cup
          {elements[i].y : i \in {j \in 1..Len(elements) :
              /\ elements[j].y < startElement.y + startElement.height
              /\ elements[j].y + elements[j].height > startElement.y
              /\ exceeds(getVerticalOverlapPercentage(startElement, elements[j]), 50)}})

\* The same without the bound on the gap.
getRightElementAtAnyGap(elements, element) ==
    LET closer == {i \in 1..Len(elements) :
                      /\ isVerticalOverlap(element, elements[i])
                      /\ exceeds(getVerticalOverlapPercentage(element, elements[i]), 50)
                      /\ elements[i].x > element.x + element.width - Tolerance
                      /\ calculateDistance(element, elements[i])
                            < calculateDistance(element, undefined)}
        closest == {i \in closer : \A j \in closer :
                       calculateDistance(element, elements[i])
                           <= calculateDistance(element, elements[j])}
    IN  IF closer = {} THEN undefined ELSE elements[least(closest)]

\* Lines 706-716: of the elements that qualify and are closer than the initial
\* closestElement, the first at the least distance; `undefined' (id 0) when
\* no element qualifies.
getRightElement(elements, element) ==
    LET closer == {i \in 1..Len(elements) :
                      /\ isVerticalOverlap(element, elements[i])
                      /\ exceeds(getVerticalOverlapPercentage(element, elements[i]), 50)
                      /\ elements[i].x > element.x + element.width - Tolerance
                      /\ elements[i].x - (element.x + element.width) < 30
                      /\ calculateDistance(element, elements[i])
                            < calculateDistance(element, undefined)}
        closest == {i \in closer : \A j \in closer :
                       calculateDistance(element, elements[i])
                           <= calculateDistance(element, elements[j])}
    IN  IF closer = {} THEN undefined ELSE elements[least(closest)]

(***************************************************************************)
(* The greedy rightward extension shared by findStartElements (798-820)    *)
(* and findTextBounds (734-754): the matches pushed for one starting       *)
(* element.  A match keeps the run (findTextBounds) and its last element   *)
(* (findStartElements).                                                    *)
(***************************************************************************)
texts(elements) == [i \in 1..Len(elements) |-> elements[i].text]

RECURSIVE extendRight(_, _, _, _, _)
\* Lines 808-820 of one pass of the loop, given the run and the threshold
\* its text is matched with.
pushAndExtend(elements, rightElement, run, matches, findText, threshold) ==
    LET pushed == IF threshold \in {0, 1, 2}
                  THEN Append(matches, [element |-> rightElement, elements |-> run,
                                        threshold |-> threshold,
                                        text |-> condense(join(texts(run)))])
                  ELSE matches
        next == getRightElement(elements, rightElement)
    IN  IF threshold = TooLong THEN matches
        ELSE IF next # undefined /\ Len(run) < 5
             THEN extendRight(elements, next, run, pushed, findText)
             ELSE pushed

\* Lines 802-820: one pass of the do-while loop and the passes after it.
extendRight(elements, rightElement, rightElements, matches, findText) ==
    pushAndExtend(elements, rightElement, Append(rightElements, rightElement), matches,
                  findText,
                  matchThreshold(condense(join(texts(Append(rightElements, rightElement)))),
                                 findText))

\* matches.reduce(..., undefined) of lines 825-828 and 767-770: <<>> for
\* undefined, otherwise the first match that no other match betters.
reduceBestMatch(matches, findText) ==
    LET closeness(m) == Abs(Len(trim(m.text)) - Len(findText))
        betters(current, previous) ==
            \/ current.threshold < previous.threshold
            \/ /\ current.threshold = previous.threshold
               /\ closeness(current) < closeness(previous)
        best == {i \in 1..Len(matches) :
                    \A j \in 1..Len(matches) : ~betters(matches[j], matches[i])}
    IN  IF matches = <<>> THEN <<>> ELSE <<matches[least(best)]>>

\* elements.filter(element => element.text.trim().toLowerCase().startsWith(c))
startingWith(elements, c) ==
    SelectSeq(elements, LAMBDA element : startsWith(toLowerCase(trim(element.text)), c))

yComparer(a, b) == IF a.y > b.y THEN 1 ELSE IF a.y < b.y THEN -1 ELSE 0

\* cellComparer and elementComparer (lines 1045, 1143, 1148) are the same function.
cellComparer(a, b) ==
    IF Abs(a.y - b.y) < Tolerance
    THEN (IF a.x > b.x THEN 1 ELSE IF a.x < b.x THEN -1 ELSE 0)
    ELSE (IF a.y > b.y THEN 1 ELSE -1)

\* Lines 322 and 324 of the table-based parsePdf.
rowComparer(a, b) == IF a[1].y > b[1].y THEN 1 ELSE IF a[1].y < b[1].y THEN -1 ELSE 0
rowCellComparer(a, b) == IF a.x > b.x THEN 1 ELSE IF a.x < b.x THEN -1 ELSE 0

horizontalLineComparer(a, b) == IF a.y1 > b.y1 THEN 1 ELSE IF a.y1 < b.y1 THEN -1 ELSE 0
verticalLineComparer(a, b) == IF a.x1 > b.x1 THEN 1 ELSE IF a.x1 < b.x1 THEN -1 ELSE 0

\* The comparer a sort is called with, by name.
compare(comparer, a, b) ==
    CASE comparer = "yComparer" -> yComparer(a, b)
      [] comparer = "rowComparer" -> rowComparer(a, b)
      [] comparer = "rowCellComparer" -> rowCellComparer(a, b)
      [] comparer = "horizontalLineComparer" -> horizontalLineComparer(a, b)
      [] comparer = "verticalLineComparer" -> verticalLineComparer(a, b)
      [] OTHER -> cellComparer(a, b)

\* One step of an insertion sort: item goes after the last entry that does not
\* compare greater than it.
insertSorted(sorted, item, comparer) ==
    LET last == greatest({0} \cup {k \in 1..Len(sorted) :
                                      compare(comparer, sorted[k], item) <= 0})
    IN  SubSeq(sorted, 1, last) \o <<item>> \o SubSeq(sorted, last + 1, Len(sorted))

RECURSIVE sortFrom(_, _, _, _, _)
\* The entries numbered lo to hi inserted, in their order, into sorted, a
\* quarter of them after the other.
sortFrom(array, lo, hi, sorted, comparer) ==
    IF lo > hi THEN sorted
    ELSE IF lo = hi THEN insertSorted(sorted, array[lo], comparer)
    ELSE LET n == hi - lo + 1
             q1 == sortFrom(array, lo, lo + (n \div 4) - 1, sorted, comparer)
             q2 == sortFrom(array, lo + (n \div 4), lo + (n \div 2) - 1, q1, comparer)
             q3 == sortFrom(array, lo + (n \div 2), lo + ((3 * n) \div 4) - 1, q2, comparer)
         IN  IF Len(q1) >= 0 /\ Len(q2) >= 0 /\ Len(q3) >= 0
             THEN sortFrom(array, lo + ((3 * n) \div 4), hi, q3, comparer)
             ELSE q3

\* Array.prototype.sort(comparer), as a stable insertion sort.
sort(array, comparer) == sortFrom(array, 1, Len(array), <<>>, comparer)

\* Lines 825-830: what the matches of one starting element push.
lastOfBestMatch(matches, findText) ==
    IF Len(matches) > 0 THEN <<reduceBestMatch(matches, findText)[1].element>> ELSE <<>>

\* Lines 793-830: for each starting element with a match, the last element of
\* its best match.
startElementsFrom(elements, candidates) ==
    join([i \in 1..Len(candidates) |->
             lastOfBestMatch(extendRight(elements, candidates[i], <<>>, <<>>, FindText),
                             FindText)])

findStartElements(elements) ==
    sort(startElementsFrom(elements, startingWith(elements, lowerChar(Head(FindText)))),
         "yComparer")

(***************************************************************************)
(* parsePdf, lines 1143-1186: sorting, ownership and the sections.         *)
(***************************************************************************)
\* The index of the last cell holding more than 50% of the element, or 0.
lastIndex(cellArray, element) ==
    LET owners == {k \in 1..Len(cellArray) :
                      exceeds(getPercentageOfElementInCell(element, cellArray[k]), 50)}
    IN  IF owners = {} THEN 0 ELSE greatest(owners)

\* cells.find(...) of line 1154: the index of the first cell holding more than
\* 50% of the element, or 0.
firstIndex(cellArray, element) ==
    LET owners == {k \in 1..Len(cellArray) :
                      exceeds(getPercentageOfElementInCell(element, cellArray[k]), 50)}
    IN  IF owners = {} THEN 0 ELSE least(owners)

\* Lines 1153-1157: each element is pushed, in the order of the elements, on
\* the first cell holding more than 50% of it.
assignOwners(cellArray, elementArray) ==
    LET ownerCell == [i \in 1..Len(elementArray) |-> firstIndex(cellArray, elementArray[i])]
    IN  [k \in 1..Len(cellArray) |->
            [cellArray[k] EXCEPT !.elements =
                @ \o join([i \in 1..Len(elementArray) |->
                              IF ownerCell[i] = k THEN <<elementArray[i]>> ELSE <<>>])]]

\* A rectangle with every co-ordinate doubled: the row tops are computed on
\* doubled co-ordinates because the raised start element sits at
\* y - height / 2.
doubled(r) == [r EXCEPT !.x = 2 * @, !.y = 2 * @, !.width = 2 * @, !.height = 2 * @]
doubledAll(array) == [i \in 1..Len(array) |-> doubled(array[i])]

\* Lines 1170-1175, doubled.
raisedStartElement(startElement) ==
    [doubled(startElement) EXCEPT !.y = 2 * startElement.y - startElement.height]

\* Line 1176, doubled.
rowTopOf(elementArray, startElement) ==
    getRowTop(doubledAll(elementArray), raisedStartElement(startElement))

\* Line 1177, doubled: the next row top, from the start element as it is.
nextRowTopOf(elementArray, starts, index) ==
    IF index + 1 <= Len(starts)
    THEN getRowTop(doubledAll(elementArray), doubled(starts[index + 1]))
    ELSE 2 * MAX_VALUE

\* Lines 1183-1184: the test of the two filters.
inWindow(r, rowTop, nextRowTop) ==
    2 * r.y >= rowTop /\ 2 * (r.y + r.height) < nextRowTop

\* Lines 1164-1186.
groupsOf(elementArray, cellArray, starts) ==
    [index \in 1..Len(starts) |->
        LET rowTop == rowTopOf(elementArray, starts[index])
            nextRowTop == nextRowTopOf(elementArray, starts, index)
        IN  [startElement |-> starts[index],
             elements |-> SelectSeq(elementArray, LAMBDA e : inWindow(e, rowTop, nextRowTop)),
             cells |-> SelectSeq(cellArray, LAMBDA c : inWindow(c, rowTop, nextRowTop))]]

(***************************************************************************)
(* parseCells, lines 972-1048: from the line-candidates to the cells.      *)
(***************************************************************************)
\* `undefined' where a point is expected.
noPoint == <<>>

\* sign(a) * b, to compare a quotient with 0 and 1 without dividing.
signed(a, b) == IF a < 0 THEN -b ELSE b

\* Lines 620-637.  The point is <<[x, y]>>, or noPoint for undefined.  The
\* quotients distance1 and distance2 are compared by cross-multiplication;
\* the co-ordinates of the point are exact for the axis-parallel lines
\* parseCells passes.
intersectLines(line1, line2, onlyWithinLineSegments) ==
    IF \/ (line1.x1 = line1.x2 /\ line1.y1 = line1.y2)
       \/ (line2.x1 = line2.x2 /\ line2.y1 = line2.y2)
    THEN noPoint
    ELSE LET denominator == (line2.y2 - line2.y1) * (line1.x2 - line1.x1)
                              - (line1.x2 - line1.x1) * (line1.y2 - line1.y1)
             numerator1 == (line2.x2 - line2.x1) * (line1.y1 - line2.y1)
                              - (line2.y2 - line2.y1) * (line1.x1 - line2.x1)
             numerator2 == (line1.x2 - line1.x1) * (line1.y1 - line2.y1)
                              - (line1.y2 - line1.y1) * (line1.x1 - line2.x1)
             n1 == signed(denominator, numerator1)
             n2 == signed(denominator, numerator2)
             d == Abs(denominator)
         IN  IF denominator = 0 THEN noPoint
             ELSE IF onlyWithinLineSegments /\ (n1 < 0 \/ n1 > d \/ n2 < 0 \/ n2 > d)
                  THEN noPoint
             ELSE << [x |-> line1.x1 + (n1 * (line1.x2 - line1.x1)) \div d,
                      y |-> line1.y1 + (n1 * (line1.y2 - line1.y1)) \div d] >>

\* The same test with points exactly Tolerance apart taken as one.
nearInclusive(ax, ay, bx, by) ==
    (ax - bx) * (ax - bx) + (ay - by) * (ay - by) <= Tolerance * Tolerance

\* (a.x - b.x) ** 2 + (a.y - b.y) ** 2 < Tolerance ** 2
near(ax, ay, bx, by) == (ax - bx) * (ax - bx) + (ay - by) * (ay - by) < Tolerance * Tolerance

\* if (!points.some(point => near)) points.push(p)
pushPoint(points, p) ==
    IF \E i \in 1..Len(points) : near(p.x, p.y, points[i].x, points[i].y)
    THEN points ELSE Append(points, p)

\* Lines 975-980.
horizontalLinesOf(lineArray) ==
    LET kept == SelectSeq(lineArray, LAMBDA l : l.height <= Tolerance /\ l.width >= 10)
    IN  [i \in 1..Len(kept) |->
            [x1 |-> kept[i].x, y1 |-> kept[i].y, x2 |-> kept[i].x + kept[i].width, y2 |-> kept[i].y]]

verticalLinesOf(lineArray) ==
    LET kept == SelectSeq(lineArray, LAMBDA l : /\ ~(l.height <= Tolerance /\ l.width >= 10)
                                                 /\ l.width <= Tolerance /\ l.height >= 10)
    IN  [i \in 1..Len(kept) |->
            [x1 |-> kept[i].x, y1 |-> kept[i].y, x2 |-> kept[i].x, y2 |-> kept[i].y + kept[i].height]]

\* Lines 997-1018: the points one (horizontal, vertical) pair adds.
pointsOfPair(points, horizontalLine, verticalLine) ==
    LET intersectionPoint == intersectLines(horizontalLine, verticalLine, TRUE)
        haveSharedPoints ==
            \/ near(verticalLine.x1, verticalLine.y1, horizontalLine.x1, horizontalLine.y1)
            \/ near(verticalLine.x1, verticalLine.y1, horizontalLine.x2, horizontalLine.y2)
            \/ near(verticalLine.x2, verticalLine.y2, horizontalLine.x1, horizontalLine.y1)
            \/ near(verticalLine.x2, verticalLine.y2, horizontalLine.x2, horizontalLine.y2)
        p1 == IF intersectionPoint # noPoint THEN pushPoint(points, intersectionPoint[1])
              ELSE points
        p2 == pushPoint(p1, [x |-> horizontalLine.x1, y |-> horizontalLine.y1])
        p3 == pushPoint(p2, [x |-> horizontalLine.x2, y |-> horizontalLine.y2])
        p4 == pushPoint(p3, [x |-> verticalLine.x1, y |-> verticalLine.y1])
        p5 == pushPoint(p4, [x |-> verticalLine.x2, y |-> verticalLine.y2])
    IN  IF haveSharedPoints \/ intersectionPoint # noPoint
        THEN (IF Len(p1) >= 0 /\ Len(p2) >= 0 /\ Len(p3) >= 0 /\ Len(p4) >= 0
              THEN p5 ELSE p5)
        ELSE p1

RECURSIVE pointsFrom(_, _, _, _, _)
\* Lines 995-1020: the pairs numbered lo to hi (from 0, horizontal lines
\* outermost), a quarter of them after the other; the points of a pair are
\* pushed before the next pair is looked at.
pointsFrom(horizontalLines, verticalLines, lo, hi, points) ==
    IF lo > hi THEN points
    ELSE IF lo = hi
         THEN pointsOfPair(points, horizontalLines[(lo \div Len(verticalLines)) + 1],
                           verticalLines[(lo % Len(verticalLines)) + 1])
    ELSE LET n == hi - lo + 1
             q1 == pointsFrom(horizontalLines, verticalLines, lo, lo + (n \div 4) - 1, points)
             q2 == pointsFrom(horizontalLines, verticalLines,
                              lo + (n \div 4), lo + (n \div 2) - 1, q1)
             q3 == pointsFrom(horizontalLines, verticalLines,
                              lo + (n \div 2), lo + ((3 * n) \div 4) - 1, q2)
         IN  IF Len(q1) >= 0 /\ Len(q2) >= 0 /\ Len(q3) >= 0
             THEN pointsFrom(horizontalLines, verticalLines, lo + ((3 * n) \div 4), hi, q3)
             ELSE q3

\* The point on the right that is farthest away.
farthestRightPoint(points, point) ==
    LET onRight == {i \in 1..Len(points) :
                       Abs(points[i].y - point.y) < Tolerance /\ points[i].x > point.x}
        farthest == {i \in onRight : \A j \in onRight : points[i].x >= points[j].x}
    IN  IF onRight = {} THEN noPoint ELSE <<points[least(farthest)]>>

\* Line 1030: points.reduce(..., undefined); noPoint, or the first of the
\* points on the right at the least distance.
closestRightPoint(points, point) ==
    LET onRight == {i \in 1..Len(points) :
                       Abs(points[i].y - point.y) < Tolerance /\ points[i].x > point.x}
        closest == {i \in onRight : \A j \in onRight : points[i].x <= points[j].x}
    IN  IF onRight = {} THEN noPoint ELSE <<points[least(closest)]>>

\* Line 1035.
closestDownPoint(points, point) ==
    LET below == {i \in 1..Len(points) :
                     Abs(points[i].x - point.x) < Tolerance /\ points[i].y > point.y}
        closest == {i \in below : \A j \in below : points[i].y <= points[j].y}
    IN  IF below = {} THEN noPoint ELSE <<points[least(closest)]>>

\* Lines 1027-1040 for the point numbered i: <<cell>>, or <<>> when the point
\* has no point on its right or none below it.
cellOfPoint(points, i) ==
    LET point == points[i]
        right == closestRightPoint(points, point)
        down == closestDownPoint(points, point)
    IN  IF right # noPoint /\ down # noPoint
        THEN << [elements |-> <<>>, x |-> point.x, y |-> point.y,
                 width |-> right[1].x - point.x, height |-> down[1].y - point.y] >>
        ELSE <<>>

\* Lines 1026-1041: the cells of the points, in the order of the points.
cellsFrom(points) == join([i \in 1..Len(points) |-> cellOfPoint(points, i)])

\* The lattice of lines 993-1020 for the line-candidates.
latticeOf(lineArray) ==
    LET horizontalLines == sort(horizontalLinesOf(lineArray), "horizontalLineComparer")
        verticalLines == sort(verticalLinesOf(lineArray), "verticalLineComparer")
    IN  pointsFrom(horizontalLines, verticalLines, 0,
                   Len(horizontalLines) * Len(verticalLines) - 1, <<>>)

\* Lines 972-1048: parseCells from the line-candidates on.
cellsOfPoints(points) ==
    LET cellArray == cellsFrom(points)
    IN  IF Len(points) >= 0 /\ Len(cellArray) >= 0 THEN sort(cellArray, "cellComparer")
        ELSE cellArray

\* Lines 972-1048: parseCells from the line-candidates on.
cellsOfLines(lineArray) == cellsOfPoints(latticeOf(lineArray))

(***************************************************************************)
(* findTextBounds, lines 721-781.                                          *)
(***************************************************************************)
\* Lines 729-755: the matches of every starting element, in one array.
matchesFrom(elements, candidates, findText) ==
    join([i \in 1..Len(candidates) |->
             extendRight(elements, candidates[i], <<>>, <<>>, findText)])

RECURSIVE unionAll(_, _, _, _)
\* Lines 774-776 for the elements numbered lo to hi; rectangle is <<>> for
\* undefined.
unionAll(elements, lo, hi, rectangle) ==
    IF lo > hi THEN rectangle
    ELSE IF lo = hi
         THEN (IF rectangle = <<>> THEN <<elements[lo]>>
               ELSE <<union(rectangle[1], elements[lo])>>)
    ELSE LET half == unionAll(elements, lo, (lo + hi) \div 2, rectangle)
         IN  IF Len(half) >= 0 THEN unionAll(elements, ((lo + hi) \div 2) + 1, hi, half)
             ELSE half

\* Lines 767-779: <<>> for undefined, otherwise <<bounds>> of the best match.
boundsOfBestMatch(matches, condensedText) ==
    IF Len(matches) > 0
    THEN LET bestMatch == reduceBestMatch(matches, condensedText)[1]
             rectangle == unionAll(bestMatch.elements, 1, Len(bestMatch.elements), <<>>)[1]
         IN  << [x |-> rectangle.x, y |-> rectangle.y,
                 width |-> rectangle.width, height |-> rectangle.height] >>
    ELSE <<>>

\* <<>> for undefined, otherwise <<bounds>>.
findTextBounds(elements, text) ==
    boundsOfBestMatch(matchesFrom(elements, startingWith(elements, Head(condense(text))),
                                  condense(text)),
                      condense(text))

(***************************************************************************)
(* moment(text, [ "D/M/YYYY", "D/M/YY" ], true) and format("YYYY-MM-DD"),  *)
(* lines 883 and 911.                                                      *)
(***************************************************************************)
Digits == <<"0", "1", "2", "3", "4", "5", "6", "7", "8", "9">>
isDigit(c) == \E d \in 1..Len(Digits) : Digits[d] = c
digitValue(c) == (CHOOSE d \in 1..Len(Digits) : Digits[d] = c) - 1
allDigits(s) == \A i \in 1..Len(s) : isDigit(s[i])

RECURSIVE toNumberFrom(_, _, _)
toNumberFrom(s, i, n) ==
    IF i > Len(s) THEN n ELSE toNumberFrom(s, i + 1, 10 * n + digitValue(s[i]))
toNumber(s) == toNumberFrom(s, 1, 0)

isLeapYear(year) == (year % 4 = 0 /\ year % 100 # 0) \/ year % 400 = 0
daysInMonth(year, month) ==
    IF month = 2 THEN (IF isLeapYear(year) THEN 29 ELSE 28)
    ELSE IF month \in {4, 6, 9, 11} THEN 30 ELSE 31

\* The token YY: 69-99 are 1969-1999, 00-68 are 2000-2068.
twoDigitYear(yy) == IF yy > 68 THEN 1900 + yy ELSE 2000 + yy

\* The strict parse: <<>> for an invalid moment, otherwise <<[year, month, day]>>.
parseDate(text) ==
    LET slashes == {i \in 1..Len(text) : text[i] = "/"}
    IN  IF Cardinality(slashes) # 2 THEN <<>>
        ELSE LET first == CHOOSE i \in slashes : \A j \in slashes : i <= j
                 second == CHOOSE i \in slashes : \A j \in slashes : i >= j
                 dayText == SubSeq(text, 1, first - 1)
                 monthText == SubSeq(text, first + 1, second - 1)
                 yearText == SubSeq(text, second + 1, Len(text))
                 year == IF Len(yearText) = 4 THEN toNumber(yearText)
                         ELSE twoDigitYear(toNumber(yearText))
                 month == toNumber(monthText)
                 day == toNumber(dayText)
             IN  IF /\ Len(dayText) \in {1, 2} /\ allDigits(dayText)
                    /\ Len(monthText) \in {1, 2} /\ allDigits(monthText)
                    /\ Len(yearText) \in {2, 4} /\ allDigits(yearText)
                    /\ month \in 1..12
                    /\ day >= 1 /\ day <= daysInMonth(year, month)
                 THEN << [year |-> year, month |-> month, day |-> day] >>
                 ELSE <<>>

pad2(n) == <<Digits[((n \div 10) % 10) + 1], Digits[(n % 10) + 1]>>
pad4(n) == pad2(n \div 100) \o pad2(n % 100)

\* format("YYYY-MM-DD")
formatDate(date) == pad4(date.year) \o <<"-">> \o pad2(date.month) \o <<"-">> \o pad2(date.day)

(***************************************************************************)
(* parseApplicationElements, lines 842-913.                                *)
(***************************************************************************)
ApplicationNoText == <<"A", "P", "P", "L", "I", "C", "A", "T", "I", "O", "N", " ", "N", "O", ":">>
DescriptionHeading == <<"D", "E", "S", "C", "R", "I", "P", "T", "I", "O", "N", ":">>
DateLodgedHeading == <<"D", "A", "T", "E", "L", "O", "D", "G", "E", "D", ":">>
DevelopmentAddressHeading ==
    <<"D", "E", "V", "E", "L", "O", "P", "M", "E", "N", "T",
      "A", "D", "D", "R", "E", "S", "S", ":">>
NoDescriptionProvided ==
    <<"N", "O", " ", "D", "E", "S", "C", "R", "I", "P", "T", "I", "O", "N", " ",
      "P", "R", "O", "V", "I", "D", "E", "D">>

\* cell.elements.map(element => element.text).join("")
cellText(cell) == join(texts(cell.elements))

\* Lines 844-846: the index of the first cell from number i on whose text,
\* without whitespace and in upper case, is the heading; 0 for undefined.
findHeadingCell(cells, heading, i) ==
    LET found == {k \in i..Len(cells) :
                     toUpperCase(removeSpaces(cellText(cells[k]))) = heading}
    IN  IF found = {} THEN 0 ELSE least(found)

\* Lines 873, 881 and 894: the index of the first cell from number i on whose
\* top left corner is within Tolerance of the heading cell's top right corner;
\* 0 for undefined.
findRightCell(cells, headingCell, i) ==
    LET found == {k \in i..Len(cells) :
                     (headingCell.x + headingCell.width - cells[k].x)
                         * (headingCell.x + headingCell.width - cells[k].x)
                       + (headingCell.y - cells[k].y) * (headingCell.y - cells[k].y)
                       < Tolerance * Tolerance}
    IN  IF found = {} THEN 0 ELSE least(found)

\* What a call gives: a value (<<>> for undefined, <<record>> otherwise), or
\* the TypeError of reading .elements of undefined.
returned(value) == [threw |-> FALSE, value |-> value]
TypeError == [threw |-> TRUE, value |-> <<>>]

\* The description as extracted, even when blank.
descriptionAsExtracted(description) == description

\* Line 907.
descriptionOrSentinel(description) ==
    IF trim(description) # <<>> THEN description ELSE NoDescriptionProvided

\* Line 911.
receivedDateOrEmpty(receivedDate) ==
    IF receivedDate # <<>> THEN formatDate(receivedDate[1]) ELSE <<>>

\* The capture with more than half of the element asked for.
captureMoreThanHalf(elements, applicationNumberHeadingBounds) ==
    LET applicationNumberBounds ==
            [x |-> applicationNumberHeadingBounds.x + applicationNumberHeadingBounds.width,
             y |-> applicationNumberHeadingBounds.y,
             width |-> MAX_VALUE,
             height |-> applicationNumberHeadingBounds.height]
    IN  stripLeadingColon(removeSpaces(join(texts(
            SelectSeq(elements, LAMBDA element :
                exceeds(getPercentageOfElementInRectangle(element, applicationNumberBounds),
                        50))))))

\* Lines 855-861.
captureApplicationNumber(elements, applicationNumberHeadingBounds) ==
    LET applicationNumberBounds ==
            [x |-> applicationNumberHeadingBounds.x + applicationNumberHeadingBounds.width,
             y |-> applicationNumberHeadingBounds.y,
             width |-> MAX_VALUE,
             height |-> applicationNumberHeadingBounds.height]
    IN  stripLeadingColon(removeSpaces(join(texts(
            SelectSeq(elements, LAMBDA element :
                exceeds(getPercentageOfElementInRectangle(element, applicationNumberBounds),
                        10))))))

\* The record is given without informationUrl, commentUrl and scrapeDate,
\* which do not depend on the section.
parseFields(elements, cells, applicationNumberHeadingBounds) ==
    LET descriptionHeadingCell == findHeadingCell(cells, DescriptionHeading, 1)
        dateLodgedHeadingCell == findHeadingCell(cells, DateLodgedHeading, 1)
        developmentAddressHeadingCell == findHeadingCell(cells, DevelopmentAddressHeading, 1)
        applicationNumber ==
            captureApplicationNumber(elements, applicationNumberHeadingBounds[1])
        descriptionCell == findRightCell(cells, cells[descriptionHeadingCell], 1)
        description ==
            IF descriptionHeadingCell # 0
            THEN collapseSpaces(trim(cellText(cells[descriptionCell])))
            ELSE <<>>
        receivedDateCell == findRightCell(cells, cells[dateLodgedHeadingCell], 1)
        receivedDate ==
            IF dateLodgedHeadingCell # 0
            THEN parseDate(removeSpaces(cellText(cells[receivedDateCell])))
            ELSE <<>>
        addressCell == findRightCell(cells, cells[developmentAddressHeadingCell], 1)
        address == collapseSpaces(trim(cellText(cells[addressCell])))
    IN  IF applicationNumberHeadingBounds = <<>> THEN returned(<<>>)
        ELSE IF applicationNumber = <<>> THEN returned(<<>>)
        ELSE IF descriptionHeadingCell # 0 /\ descriptionCell = 0 THEN TypeError
        ELSE IF dateLodgedHeadingCell # 0 /\ receivedDateCell = 0 THEN TypeError
        ELSE IF developmentAddressHeadingCell = 0 THEN returned(<<>>)
        ELSE IF addressCell = 0 THEN TypeError
        ELSE IF address = <<>> THEN returned(<<>>)
        ELSE returned(<< [applicationNumber |-> applicationNumber,
                          address |-> address,
                          description |-> descriptionOrSentinel(description),
                          receivedDate |-> receivedDateOrEmpty(receivedDate)] >>)

\* Lines 842-913.
parseApplicationElements(elements, cells) ==
    parseFields(elements, cells, findTextBounds(elements, ApplicationNoText))

(***************************************************************************)
(* SpecMatch: the texts a run of elements can carry, reached from the      *)
(* label by character edits, and the comparison applied to each.           *)
(***************************************************************************)
Unset == -3
EditChars == {"x", " ", "N"}
EditPositions(s) == {1, (Len(s) + 1) \div 2, Len(s)} \cap (1..Len(s))

PageInit ==
    /\ pageElements = <<>>
    /\ pageCells = <<>>
    /\ startElements = <<>>
    /\ applicationElementGroups = <<>>
    /\ segmented = FALSE

NoGrid == [n |-> 0, m |-> 0, sx |-> 0, sy |-> 0, t |-> 0, overhang |-> 0]

\* page before getPage has given one.
NoPage == [lines |-> <<>>, elements |-> <<>>, rotate |-> 0]

GridInit ==
    /\ lines = <<>>
    /\ grid = NoGrid
    /\ gridCells = <<>>
    /\ reconstructed = FALSE

MatchInit ==
    /\ runText = FindText
    /\ edits = 0
    /\ recorded = Unset

FieldsInit ==
    /\ sectionElements = <<>>
    /\ sectionCells = <<>>
    /\ developmentApplication = returned(<<>>)
    /\ sectionParsed = FALSE

RunInit ==
    /\ pc = "main"
    /\ selectedPdfUrls = 0
    /\ documentIndex = 0
    /\ numPages = 0
    /\ pageIndex = 0
    /\ pdf = 0
    /\ pdfPage = NoPage
    /\ liveDecodes = {}
    /\ decodes = 0
    /\ outcomes = <<>>
    /\ developmentApplications = <<>>
    /\ database = {}

GeomInit ==
    /\ rectangles = <<>>
    /\ segments = <<>>
    /\ applied = "none"
    /\ result = <<>>

\* Lines 926-929: the identity is the transform, and is on the stack.
StreamInit ==
    /\ operators = <<>>
    /\ transform = <<1, 0, 0, 1, 0, 0>>
    /\ transformStack = << <<1, 0, 0, 1, 0, 0>> >>
    /\ previousRectangle = <<>>
    /\ walkThrew = FALSE

NoTable == [columns |-> <<>>, rows |-> <<>>]

TableInit ==
    /\ tableLayout = NoTable
    /\ tableCells = <<>>
    /\ tableElements = <<>>
    /\ tableApplications = <<>>
    /\ tableParsed = FALSE

RightInit ==
    /\ neighbours = <<>>
    /\ runElement = undefined
    /\ runElements = <<>>
    /\ runMatches = <<>>
    /\ runPc = "place"
    /\ rightCall = <<>>

\* The state before any of the functions has been called.
Init ==
    /\ MatchInit /\ PageInit /\ GridInit /\ FieldsInit /\ RunInit /\ GeomInit /\ StreamInit
    /\ TableInit /\ RightInit

InsertChar ==
    /\ edits < MaxEdits
    /\ \E p \in EditPositions(runText) \cup {Len(runText) + 1}, c \in EditChars :
          runText' = SubSeq(runText, 1, p - 1) \o <<c>> \o SubSeq(runText, p, Len(runText))
    /\ edits' = edits + 1
    /\ recorded' = Unset
    /\ UNCHANGED exceptMatch

DeleteChar ==
    /\ edits < MaxEdits
    /\ \E p \in EditPositions(runText) :
          runText' = SubSeq(runText, 1, p - 1) \o SubSeq(runText, p + 1, Len(runText))
    /\ edits' = edits + 1
    /\ recorded' = Unset
    /\ UNCHANGED exceptMatch

SubstituteChar ==
    /\ edits < MaxEdits
    /\ \E p \in EditPositions(runText), c \in EditChars :
          /\ c # runText[p]
          /\ runText' = [runText EXCEPT ![p] = c]
    /\ edits' = edits + 1
    /\ recorded' = Unset
    /\ UNCHANGED exceptMatch

\* The comparison of lines 807-817 on the run's text.
CompareRun ==
    /\ recorded = Unset
    /\ recorded' = matchThreshold(condense(runText), FindText)
    /\ UNCHANGED <<runText, edits>>
    /\ UNCHANGED exceptMatch

MatchNext == InsertChar \/ DeleteChar \/ SubstituteChar \/ CompareRun

SpecMatch == Init /\ [][MatchNext]_vars

RECURSIVE editDistanceWithin(_, _, _, _, _)
\* The Levenshtein distance by its recurrence: TRUE when a from index i and b
\* from index j are at distance at most k.
editDistanceWithin(a, b, i, j, k) ==
    IF i > Len(a) THEN Len(b) - j + 1 <= k
    ELSE IF j > Len(b) THEN Len(a) - i + 1 <= k
    ELSE IF a[i] = b[j] THEN editDistanceWithin(a, b, i + 1, j + 1, k)
    ELSE IF k = 0 THEN FALSE
    ELSE IF editDistanceWithin(a, b, i + 1, j + 1, k - 1) THEN TRUE
    ELSE IF editDistanceWithin(a, b, i + 1, j, k - 1) THEN TRUE
    ELSE editDistanceWithin(a, b, i, j + 1, k - 1)

(***************************************************************************)
(* C7: a run whose condensed text equals "applicationno:" is recorded with *)
(* rank 0, one at edit distance 1 with rank 1, one at edit distance 2 with *)
(* rank 2, and one at edit distance 3 or more is not recorded.  The        *)
(* distance of a text reached by k edits is at most k.                     *)
(***************************************************************************)
C7_RankIsEditDistance ==
    LET text == condense(runText)
        label == toLowerCase(FindText)
        Within(k) == editDistanceWithin(text, label, 1, 1, k)
    IN  /\ Within(edits)
        /\ recorded # Unset =>
              /\ (text = label) <=> (recorded = 0)
              /\ (Within(1) /\ ~Within(0)) <=> (recorded = 1)
              /\ (Within(2) /\ ~Within(1)) <=> (recorded = 2)
              /\ ~Within(2) <=> (recorded \in {NoMatch, TooLong})

\* A run two characters short of the label, at distance 2, has been compared.
C7_Witness ==
    /\ recorded = 2
    /\ Len(condense(runText)) = Len(FindText) - 2

(***************************************************************************)
(* SpecSeg: pages built from a pool of elements and cells, and lines       *)
(* 1143-1186 applied to each.                                              *)
(***************************************************************************)
LabelText == <<"A", "P", "P", "L", "I", "C", "A", "T", "I", "O", "N", " ", "N", "O", ":">>

\* The shapes an element of the pool takes: a whole label, a stray letter, a
\* short value.
ElementShapes ==
    << [text |-> LabelText, width |-> 40, height |-> 10],
       [text |-> <<"A">>, width |-> 5, height |-> 10],
       [text |-> <<"7">>, width |-> 2, height |-> 4] >>
ElementXs == <<0, 10>>
ElementYs == <<0, 94, 100>>

\* The pool's element number id (1 .. 18).
poolElement(id) ==
    LET k == id - 1
        shape == ElementShapes[(k % 3) + 1]
    IN  [id |-> id, text |-> shape.text,
         x |-> ElementXs[((k \div 3) % 2) + 1], y |-> ElementYs[(k \div 6) + 1],
         width |-> shape.width, height |-> shape.height]
PoolIds == 1..(Len(ElementShapes) * Len(ElementXs) * Len(ElementYs))

CellPool ==
    << [x |-> 0, y |-> 0, width |-> 60, height |-> 20, elements |-> <<>>],
       [x |-> 0, y |-> 90, width |-> 60, height |-> 8, elements |-> <<>>],
       [x |-> 0, y |-> 94, width |-> 60, height |-> 20, elements |-> <<>>],
       [x |-> 0, y |-> 100, width |-> 60, height |-> 20, elements |-> <<>>] >>

\* parseElements returned one more element.
AddElement ==
    /\ ~segmented
    /\ Len(pageElements) < MaxElements
    /\ \E id \in PoolIds :
          /\ \A i \in 1..Len(pageElements) : pageElements[i].id < id
          /\ pageElements' = Append(pageElements, poolElement(id))
    /\ UNCHANGED <<pageCells, startElements, applicationElementGroups, segmented>>
    /\ UNCHANGED exceptPage

\* parseCells returned one more cell.
AddCell ==
    /\ ~segmented
    /\ Len(pageCells) < MaxCells
    /\ \E k \in 1..Len(CellPool) :
          /\ \A i \in 1..Len(pageCells) : pageCells[i] # CellPool[k]
          /\ pageCells' = Append(pageCells, CellPool[k])
    /\ UNCHANGED <<pageElements, startElements, applicationElementGroups, segmented>>
    /\ UNCHANGED exceptPage

\* Lines 1143-1186 on the page.
SegmentPage ==
    /\ ~segmented
    /\ \E sortedElements \in {sort(pageElements, "elementComparer")} :
       \E ownedCells \in {assignOwners(sort(pageCells, "cellComparer"), sortedElements)} :
       \E starts \in {findStartElements(sortedElements)} :
           /\ pageElements' = sortedElements
           /\ pageCells' = ownedCells
           /\ startElements' = starts
           /\ applicationElementGroups' = groupsOf(sortedElements, ownedCells, starts)
    /\ segmented' = TRUE
    /\ UNCHANGED exceptPage

SegNext == AddElement \/ AddCell \/ SegmentPage

SpecSeg == Init /\ [][SegNext]_vars

(***************************************************************************)
(* What the claims about the sections speak of.                            *)
(***************************************************************************)
ids(array) == {array[i].id : i \in 1..Len(array)}

\* The row top of anchor j as section 4.5 defines it: the least y among the
\* raised anchor and the elements that overlap it by more than 50% (doubled).
specRowTop(j) ==
    LET raised == raisedStartElement(startElements[j])
        row == {e \in Range(doubledAll(pageElements)) :
                   /\ e.y < raised.y + raised.height
                   /\ e.y + e.height > raised.y
                   /\ exceeds(getVerticalOverlapPercentage(raised, e), 50)}
        tops == {raised.y} \cup {e.y : e \in row}
    IN  CHOOSE t \in tops : \A u \in tops : t <= u

\* The starting elements from which the greedy extension records a match.
matchingStarts ==
    {i \in 1..Len(pageElements) :
        /\ startsWith(toLowerCase(trim(pageElements[i].text)), "a")
        /\ extendRight(pageElements, pageElements[i], <<>>, <<>>, FindText) # <<>>}

(***************************************************************************)
(* C4: after parsePdf has segmented a page, no element belongs to the      *)
(* element list of two different sections.                                 *)
(***************************************************************************)
C4_NoElementInTwoSections ==
    segmented =>
        \A i, j \in 1..Len(applicationElementGroups) :
            i # j => ids(applicationElementGroups[i].elements)
                        \cap ids(applicationElementGroups[j].elements) = {}

(***************************************************************************)
(* C5: for a page on which the anchor phrase occurs k times,               *)
(* findStartElements returns exactly k anchors, no element being returned  *)
(* twice, and parsePdf builds exactly k sections.  An occurrence is a      *)
(* starting element whose run is recorded as a match.                      *)
(***************************************************************************)
C5_OneAnchorPerOccurrence ==
    segmented =>
        /\ Len(startElements) = Cardinality(matchingStarts)
        /\ Cardinality(ids(startElements)) = Len(startElements)
        /\ Len(applicationElementGroups) = Cardinality(matchingStarts)

(***************************************************************************)
(* C6: the section built for anchor i contains exactly the page's elements *)
(* and cells whose y lies in [rowTop(i), rowTop(i+1)), rowTop(j) being the *)
(* row top computed for anchor j; the last interval has no upper end.      *)
(***************************************************************************)
C6_SectionIsHalfOpenWindow ==
    segmented =>
        \A i \in 1..Len(applicationElementGroups) :
            LET top == specRowTop(i)
                last == i = Len(startElements)
                In(r) == 2 * r.y >= top /\ (last \/ 2 * r.y < specRowTop(i + 1))
            IN  /\ applicationElementGroups[i].elements = SelectSeq(pageElements, In)
                /\ applicationElementGroups[i].cells = SelectSeq(pageCells, In)

(***************************************************************************)
(* What the claim about ownership speaks of: the area an element and a     *)
(* cell have in common, and the cells that hold the element.               *)
(***************************************************************************)
overlapArea(element, cell) ==
    LET across == Min2(element.x + element.width, cell.x + cell.width)
                     - Max2(element.x, cell.x)
        down == Min2(element.y + element.height, cell.y + cell.height)
                   - Max2(element.y, cell.y)
    IN  IF across > 0 /\ down > 0 THEN across * down ELSE 0

\* More than 50% of the element lies in the cell.
moreThanHalfIn(element, cell) ==
    /\ element.width * element.height # 0
    /\ 100 * overlapArea(element, cell) > 50 * element.width * element.height

\* The cells of the page, by index, that have the element in their list.
holders(element) ==
    {k \in 1..Len(pageCells) :
        \E j \in 1..Len(pageCells[k].elements) : pageCells[k].elements[j].id = element.id}

\* The cells of the page, by index, that more than half of the element lies in.
overHalf(element) ==
    {k \in 1..Len(pageCells) : moreThanHalfIn(element, pageCells[k])}

(***************************************************************************)
(* C12: after ownership assignment on a page every element is in the       *)
(* elements list of at most one cell, and there once; the owner is the     *)
(* first cell in the sorted cell order whose overlap percentage with the   *)
(* element is strictly greater than 50; an element that no cell overlaps   *)
(* by more than 50% is in no cell, and is still looked at by               *)
(* findStartElements (a label in no cell is an anchor) and by the          *)
(* sections (a section lists every element in its window, owned or not).   *)
(***************************************************************************)
C12_FirstCellOwns ==
    segmented =>
        /\ \A i \in 1..Len(pageElements) :
              /\ holders(pageElements[i])
                    = IF overHalf(pageElements[i]) = {} THEN {}
                      ELSE {least(overHalf(pageElements[i]))}
              /\ \A k \in holders(pageElements[i]) :
                    Cardinality({j \in 1..Len(pageCells[k].elements) :
                                    pageCells[k].elements[j].id = pageElements[i].id}) = 1
        /\ \A k \in 1..Len(pageCells) : ids(pageCells[k].elements) \subseteq ids(pageElements)
        /\ \A i \in 1..Len(pageElements) :
              (holders(pageElements[i]) = {} /\ pageElements[i].text = LabelText)
                 => pageElements[i].id \in ids(startElements)
        /\ \A g \in 1..Len(applicationElementGroups) :
              applicationElementGroups[g].elements
                 = SelectSeq(pageElements,
                             LAMBDA e : inWindow(e, rowTopOf(pageElements, startElements[g]),
                                                 nextRowTopOf(pageElements, startElements, g)))

\* An element that two cells hold more than half of is in the first, and an
\* element in no cell is the anchor of a section and in its list.
C12_Witness ==
    /\ segmented
    /\ \E i \in 1..Len(pageElements) :
          /\ Cardinality(overHalf(pageElements[i])) = 2
          /\ holders(pageElements[i]) = {1}
    /\ \E i \in 1..Len(pageElements) :
          /\ holders(pageElements[i]) = {}
          /\ pageElements[i].id \in ids(startElements)
          /\ \E g \in 1..Len(applicationElementGroups) :
                pageElements[i].id \in ids(applicationElementGroups[g].elements)

(***************************************************************************)
(* SpecGrid: line-candidates drawn one by one from a pool, or as a full    *)
(* ruled grid, and parseCells applied to them, again after a permutation.  *)
(***************************************************************************)
\* The distances between neighbouring rules of a drawn grid.
Spacings == {2, 3, 10}

\* The rules of a full grid of n horizontal and m vertical rules of thickness
\* t: horizontal i at y = i * sy from the first vertical rule to the last,
\* vertical j at x = j * sx from the first horizontal rule to the last, each
\* running on by overhang past the last rule it meets.
gridLines(g) ==
    [i \in 1..g.n |-> [x |-> 0, y |-> (i - 1) * g.sy,
                       width |-> (g.m - 1) * g.sx + g.overhang, height |-> g.t]]
    \o [j \in 1..g.m |-> [x |-> (j - 1) * g.sx, y |-> 0,
                          width |-> g.t, height |-> (g.n - 1) * g.sy + g.overhang]]

Grids ==
    {g \in [n : 2..MaxRules, m : 2..MaxRules, sx : Spacings, sy : Spacings,
            t : 0..Tolerance, overhang : 0..Tolerance] :
        /\ g.overhang \in {0, g.t}
        /\ (g.m - 1) * g.sx + g.overhang >= 10
        /\ (g.n - 1) * g.sy + g.overhang >= 10}

\* Single line-candidates: horizontal rules that start 2 apart, vertical rules.
LinePool ==
    {[x |-> x, y |-> y, width |-> 20, height |-> 1] : x \in {0, 2}, y \in {0, 20}}
    \cup {[x |-> x, y |-> 0, width |-> 1, height |-> 20] : x \in {0, 20}}

\* The walk of the operator stream emitted one more line-candidate.
AddLine ==
    /\ ~reconstructed
    /\ grid = NoGrid
    /\ Len(lines) < MaxLines
    /\ \E l \in LinePool : lines' = Append(lines, l)
    /\ UNCHANGED <<grid, gridCells, reconstructed>>
    /\ UNCHANGED exceptGrid

\* The operator stream draws a full ruled grid.
DrawGrid ==
    /\ ~reconstructed
    /\ lines = <<>>
    /\ \E g \in Grids :
          /\ grid' = g
          /\ lines' = gridLines(g)
    /\ UNCHANGED <<gridCells, reconstructed>>
    /\ UNCHANGED exceptGrid

\* parseCells, lines 972-1048.
ParseCells ==
    /\ ~reconstructed
    /\ gridCells' = cellsOfLines(lines)
    /\ reconstructed' = TRUE
    /\ UNCHANGED <<lines, grid>>
    /\ UNCHANGED exceptGrid

\* parseCells on the same line-candidates with two neighbours exchanged.
PermuteLines ==
    /\ reconstructed
    /\ Len(lines) <= MaxLines
    /\ \E i \in 1..(Len(lines) - 1) :
          /\ lines[i] # lines[i + 1]
          /\ lines' = [lines EXCEPT ![i] = lines[i + 1], ![i + 1] = lines[i]]
    /\ gridCells' = cellsOfLines(lines')
    /\ UNCHANGED <<grid, reconstructed>>
    /\ UNCHANGED exceptGrid

GridNext == AddLine \/ DrawGrid \/ ParseCells \/ PermuteLines

SpecGrid == Init /\ [][GridNext]_vars

(***************************************************************************)
(* C8: for N >= 2 horizontal and M >= 2 vertical evenly spaced rules       *)
(* forming a full grid, parseCells returns exactly (N-1)*(M-1) cells.      *)
(***************************************************************************)
C8_FullGridCellCount ==
    (reconstructed /\ grid # NoGrid) => Len(gridCells) = (grid.n - 1) * (grid.m - 1)

\* The same, for grids whose neighbouring rules are at least Tolerance apart
\* and whose rules run on past the last rule they meet by less than Tolerance.
C8_SpacedGridCellCount ==
    (/\ reconstructed /\ grid # NoGrid
     /\ grid.sx >= Tolerance /\ grid.sy >= Tolerance
     /\ grid.overhang < Tolerance)
        => Len(gridCells) = (grid.n - 1) * (grid.m - 1)

C8_Witness ==
    /\ reconstructed /\ grid # NoGrid
    /\ grid.sx = Tolerance /\ grid.sy >= Tolerance /\ grid.overhang < Tolerance
    /\ grid.n >= 3 /\ grid.m >= 5
    /\ Len(gridCells) = (grid.n - 1) * (grid.m - 1)

(***************************************************************************)
(* C9: for every permutation of the same line-candidates parseCells        *)
(* returns the same set of cells.                                          *)
(***************************************************************************)
C9_OrderIndependent ==
    [][(reconstructed /\ reconstructed') => Range(gridCells') = Range(gridCells)]_vars

(***************************************************************************)
(* SpecFields: the sections parseApplicationElements can be given, built   *)
(* row by row from the top, and the function applied to each.  The cells   *)
(* hold the elements that lines 1153-1157 gave them.                       *)
(***************************************************************************)
Shed == <<"S", "H", "E", "D">>
TwoWords == <<"A", " ", " ", "B">>
Street == <<" ", "1", " ", " ", "A", " ", "S", "T", " ">>

\* The texts the element right of the label can carry.
NumberTexts == { <<"7">>, <<" ">>, <<":">>, <<":", " ", "7", "/", "1">> }

\* The rows of a section below the label: the heading as printed, where the
\* row is, and the texts its value cell can carry.
FieldRows ==
    << [heading |-> DescriptionHeading, y |-> 30,
        values |-> { <<" ">>, Shed, TwoWords, NoDescriptionProvided }],
       [heading |-> <<"D", "a", "t", "e", " ", "L", "o", "d", "g", "e", "d", ":">>, y |-> 50,
        values |-> { <<"1", "/", "2", "/", "2", "0", "2", "0">>,
                     <<"2", "9", "/", "2", "/", "2", "0">>,
                     <<"3", "1", "/", "1", "2", "/", "9", "9">>,
                     <<"2", "9", "/", "2", "/", "2", "0", "1", "9">>,
                     <<"1", "/", "1", "3", "/", "2", "0", "2", "0">>,
                     <<"1", " ", "/", "2", "/", "2", "0", "2", "0", "0">> }],
       [heading |-> <<"D", "E", "V", "E", "L", "O", "P", "M", "E", "N", "T", " ",
                      "A", "D", "D", "R", "E", "S", "S", ":">>, y |-> 70,
        values |-> { <<" ">>, Street, <<"1">> }] >>

\* The next element of the section, with the text and the place given.
newElement(elements, text, x, y, width, height) ==
    [id |-> Len(elements) + 1, text |-> text, x |-> x, y |-> y,
     width |-> width, height |-> height]

\* The row of the label: the label, the element right of it, or both.
PlaceLabelRow ==
    /\ ~sectionParsed
    /\ sectionElements = <<>> /\ sectionCells = <<>>
    /\ \E withLabel \in BOOLEAN, number \in NumberTexts \cup {<<>>} :
          /\ withLabel \/ number # <<>>
          /\ LET labelled == IF withLabel
                             THEN <<newElement(<<>>, ApplicationNoText, 0, 10, 40, 10)>>
                             ELSE <<>>
             IN  sectionElements' =
                     IF number # <<>>
                     THEN Append(labelled, newElement(labelled, number, 45, 10, 10, 10))
                     ELSE labelled
    /\ UNCHANGED <<sectionCells, developmentApplication, sectionParsed>>
    /\ UNCHANGED exceptFields

\* One row of the table: the heading cell, and right of it no cell, an empty
\* cell or a cell with a text.
PlaceFieldRow ==
    /\ ~sectionParsed
    /\ \E r \in 1..Len(FieldRows), withCell \in BOOLEAN :
       \E text \in (IF withCell THEN FieldRows[r].values ELSE {}) \cup {<<>>} :
          LET row == FieldRows[r]
              headingElement == newElement(sectionElements, row.heading, 2, row.y + 1, 40, 8)
              withHeading == Append(sectionElements, headingElement)
              valueElement == newElement(withHeading, text, 52, row.y + 1, 40, 8)
              headingCell == [x |-> 0, y |-> row.y, width |-> 50, height |-> 10,
                              elements |-> <<headingElement>>]
              valueCell == [x |-> 50, y |-> row.y, width |-> 50, height |-> 10,
                            elements |-> IF text # <<>> THEN <<valueElement>> ELSE <<>>]
          IN  /\ \A i \in 1..Len(sectionCells) : sectionCells[i].y < row.y
              /\ sectionElements' = IF text # <<>> THEN Append(withHeading, valueElement)
                                    ELSE withHeading
              /\ sectionCells' = IF withCell THEN sectionCells \o <<headingCell, valueCell>>
                                 ELSE Append(sectionCells, headingCell)
    /\ UNCHANGED <<developmentApplication, sectionParsed>>
    /\ UNCHANGED exceptFields

\* parseApplicationElements on the section, line 1192.
ParseSection ==
    /\ ~sectionParsed
    /\ developmentApplication' = parseApplicationElements(sectionElements, sectionCells)
    /\ sectionParsed' = TRUE
    /\ UNCHANGED <<sectionElements, sectionCells>>
    /\ UNCHANGED exceptFields

FieldsNext == PlaceLabelRow \/ PlaceFieldRow \/ ParseSection

SpecFields == Init /\ [][FieldsNext]_vars

(***************************************************************************)
(* What the claims about the record speak of.                              *)
(***************************************************************************)
isBlank(text) == trim(text) = <<>>

\* TRUE when the section has a DESCRIPTION: label cell.
hasDescriptionHeading == findHeadingCell(sectionCells, DescriptionHeading, 1) # 0

\* The text of the cell right of the DESCRIPTION: label cell.
extractedDescription ==
    LET heading == sectionCells[findHeadingCell(sectionCells, DescriptionHeading, 1)]
    IN  cellText(sectionCells[findRightCell(sectionCells, heading, 1)])

\* YYYY-MM-DD with a month of the calendar and a day of that month.
isNormalisedDate(text) ==
    /\ Len(text) = 10
    /\ text[5] = "-" /\ text[8] = "-"
    /\ allDigits(SubSeq(text, 1, 4)) /\ allDigits(SubSeq(text, 6, 7))
    /\ allDigits(SubSeq(text, 9, 10))
    /\ toNumber(SubSeq(text, 6, 7)) \in 1..12
    /\ toNumber(SubSeq(text, 9, 10)) >= 1
    /\ toNumber(SubSeq(text, 9, 10))
          <= daysInMonth(toNumber(SubSeq(text, 1, 4)), toNumber(SubSeq(text, 6, 7)))

recordReturned ==
    sectionParsed /\ ~developmentApplication.threw /\ developmentApplication.value # <<>>

(***************************************************************************)
(* C1 as stated: every record parseApplicationElements returns has a       *)
(* non-blank applicationNumber and a non-blank address, its description is *)
(* the sentinel exactly when the extracted description text is blank or    *)
(* the DESCRIPTION: label cell is absent, and its receivedDate is a        *)
(* normalised YYYY-MM-DD date or the empty string.                         *)
(***************************************************************************)
C1_SentinelExactlyWhenBlank ==
    recordReturned =>
        LET record == developmentApplication.value[1]
        IN  /\ ~isBlank(record.applicationNumber)
            /\ ~isBlank(record.address)
            /\ (record.description = NoDescriptionProvided)
                  <=> (~hasDescriptionHeading \/ isBlank(extractedDescription))
            /\ (record.receivedDate = <<>> \/ isNormalisedDate(record.receivedDate))

(***************************************************************************)
(* C1: every record parseApplicationElements returns has a non-blank       *)
(* applicationNumber and a non-blank address; its description is the       *)
(* sentinel when the DESCRIPTION: label cell is absent or the extracted     *)
(* text is blank, and otherwise the extracted text, trimmed and with runs  *)
(* of whitespace collapsed (which may itself read as the sentinel); its    *)
(* receivedDate is a normalised YYYY-MM-DD date or the empty string.       *)
(***************************************************************************)
C1_RecordFields ==
    recordReturned =>
        LET record == developmentApplication.value[1]
        IN  /\ ~isBlank(record.applicationNumber)
            /\ ~isBlank(record.address)
            /\ record.description =
                  IF ~hasDescriptionHeading \/ isBlank(extractedDescription)
                  THEN NoDescriptionProvided
                  ELSE collapseSpaces(trim(extractedDescription))
            /\ (record.receivedDate = <<>> \/ isNormalisedDate(record.receivedDate))

\* A record with a blank description cell and a two-digit year has been returned.
C1_Witness ==
    /\ recordReturned
    /\ hasDescriptionHeading /\ extractedDescription = <<" ">>
    /\ developmentApplication.value[1].description = NoDescriptionProvided
    /\ developmentApplication.value[1].receivedDate
          = <<"2", "0", "2", "0", "-", "0", "2", "-", "2", "9">>

(***************************************************************************)
(* The pages the decoder gives in SpecRun: sections stacked down the page, *)
(* each with the label and the number, a DESCRIPTION: row and a            *)
(* DEVELOPMENT ADDRESS: row, in the co-ordinates of the PDF (y upwards).   *)
(***************************************************************************)
\* Lines 1124 and 1127: y = -(y + height).
invertY(rectangle) == [rectangle EXCEPT !.y = -(rectangle.y + rectangle.height)]
invertAll(array) == [i \in 1..Len(array) |-> invertY(array[i])]

\* The sections of the pages: whether the DESCRIPTION: label cell has a cell
\* on its right and the text in it, and whether there is a DEVELOPMENT
\* ADDRESS: row.
SectionKinds ==
    << [number |-> <<"7">>, description |-> TRUE, text |-> Shed, address |-> TRUE],
       [number |-> <<"8">>, description |-> TRUE, text |-> Shed, address |-> TRUE],
       [number |-> <<"7">>, description |-> TRUE, text |-> Shed, address |-> FALSE],
       [number |-> <<"7">>, description |-> FALSE, text |-> <<>>, address |-> TRUE],
       [number |-> <<"7">>, description |-> FALSE, text |-> <<>>, address |-> FALSE],
       [number |-> <<"7">>, description |-> TRUE, text |-> TwoWords, address |-> TRUE] >>

\* The rules of one table row, top at y, wide for one cell or for two.
rowRules(y, twoCells) ==
    LET width == IF twoCells THEN 100 ELSE 50
    IN  << [x |-> 0, y |-> y, width |-> width, height |-> 1],
           [x |-> 0, y |-> y + 10, width |-> width, height |-> 1],
           [x |-> 0, y |-> y, width |-> 1, height |-> 10],
           [x |-> 50, y |-> y, width |-> 1, height |-> 10] >>
        \o (IF twoCells THEN << [x |-> 100, y |-> y, width |-> 1, height |-> 10] >> ELSE <<>>)

\* The rules of a section whose top is at y.
sectionRules(kind, y) ==
    rowRules(y + 30, kind.description)
    \o (IF kind.address THEN rowRules(y + 50, TRUE) ELSE <<>>)

\* The texts of a section whose top is at y, the elements before it on the
\* page being given.
sectionTexts(kind, y, before) ==
    LET label == Append(before, newElement(before, ApplicationNoText, 0, y + 10, 40, 10))
        number == Append(label, newElement(label, kind.number, 45, y + 10, 10, 10))
        heading == Append(number, newElement(number, DescriptionHeading, 2, y + 31, 40, 8))
        described == IF kind.description
                     THEN Append(heading, newElement(heading, kind.text, 52, y + 31, 40, 8))
                     ELSE heading
        addressed == Append(described,
                            newElement(described, FieldRows[3].heading, 2, y + 51, 40, 8))
    IN  IF kind.address
        THEN Append(addressed, newElement(addressed, Street, 52, y + 51, 40, 8))
        ELSE described

RECURSIVE pageFrom(_, _, _)
\* The page with the sections kinds[i], kinds[i + 1], ... below what it has.
pageFrom(kinds, i, page) ==
    IF i > Len(kinds) THEN page
    ELSE pageFrom(kinds, i + 1,
             [page EXCEPT !.lines = @ \o sectionRules(kinds[i], (i - 1) * 100),
                          !.elements = sectionTexts(kinds[i], (i - 1) * 100, @)])

\* What the decoder gives for the page: y upwards.
decoded(page) ==
    [page EXCEPT !.lines = invertAll(@), !.elements = invertAll(@)]

KindSequences(most) ==
    UNION {[1..n -> 1..Len(SectionKinds)] : n \in 0..most}

\* The rotations a page declares, in degrees.
Rotations == {0, 90, 180, 270}

\* The upright pages of up to most sections.
UprightPages(most) ==
    {decoded(pageFrom([i \in 1..Len(ks) |-> SectionKinds[ks[i]]], 1, NoPage)) :
        ks \in KindSequences(most)}

\* The pages: upright ones of up to MaxSections sections, and ones of up to
\* MaxRotatedSections sections declaring each rotation.
Pages ==
    UprightPages(MaxSections)
    \cup {[page EXCEPT !.rotate = rotate] :
             page \in UprightPages(MaxRotatedSections), rotate \in Rotations}

(***************************************************************************)
(* SpecRun: main (lines 1216-1299) and parsePdf (lines 1081-1200), one     *)
(* action for each await and one for the synchronous lines 1120-1196.      *)
(***************************************************************************)
\* The exchange of the axes without the change of sign.
rotateWithoutSign(rectangle) ==
    [rectangle EXCEPT !.x = rectangle.y + rectangle.height, !.y = rectangle.x,
                      !.width = rectangle.height, !.height = rectangle.width]

\* Lines 641-650.
rotate90Clockwise(rectangle) ==
    [rectangle EXCEPT !.x = -(rectangle.y + rectangle.height), !.y = rectangle.x,
                      !.width = rectangle.height, !.height = rectangle.width]

\* The rotation of an element without the adjustment of line 1137.
rotateWithoutAdjustment(element) == rotate90Clockwise(element)

\* Lines 1136-1137.
rotateElement(element) ==
    LET rotated == rotate90Clockwise(element)
    IN  [rotated EXCEPT !.y = rotated.y - rotated.width,
                        !.width = rotated.height, !.height = rotated.width]

\* The rotation of the cells of every page that declares a rotation.
normaliseCellsOfRotatedPage(cellArray, rotate) ==
    [i \in 1..Len(cellArray) |->
        IF rotate # 0 THEN rotate90Clockwise(invertY(cellArray[i]))
        ELSE invertY(cellArray[i])]

\* Lines 1123-1139 on the cells and on the elements.
normaliseCells(cellArray, rotate) ==
    [i \in 1..Len(cellArray) |->
        IF rotate = 90 THEN rotate90Clockwise(invertY(cellArray[i]))
        ELSE invertY(cellArray[i])]
normaliseElements(elementArray, rotate) ==
    [i \in 1..Len(elementArray) |->
        IF rotate = 90 THEN rotateElement(invertY(elementArray[i]))
        ELSE invertY(elementArray[i])]

\* Line 1192 on every section.
outcomesOf(groups) ==
    [i \in 1..Len(groups) |->
        parseApplicationElements(groups[i].elements, groups[i].cells)]

RECURSIVE pushEveryApplication(_, _, _, _)
\* The push of line 1195 without the test of line 1194.
pushEveryApplication(results, i, last, applications) ==
    IF i > last THEN applications
    ELSE pushEveryApplication(results, i + 1, last,
             IF ~results[i].threw /\ results[i].value # <<>>
             THEN Append(applications, results[i].value[1])
             ELSE applications)

RECURSIVE pushApplications(_, _, _, _)
\* Lines 1193-1195 for the sections up to the one numbered last.
pushApplications(results, i, last, applications) ==
    IF i > last THEN applications
    ELSE pushApplications(results, i + 1, last,
             IF /\ ~results[i].threw
                /\ results[i].value # <<>>
                /\ ~\E j \in 1..Len(applications) :
                      applications[j].applicationNumber = results[i].value[1].applicationNumber
             THEN Append(applications, results[i].value[1])
             ELSE applications)

\* Lines 1191-1196, given what line 1192 gives for each section: the sections
\* in order, up to the first that throws.
parseOutcomes(results, applications) ==
    LET throwing == {i \in 1..Len(results) : results[i].threw}
        last == IF throwing = {} THEN Len(results)
                ELSE CHOOSE i \in throwing : \A j \in throwing : i <= j
    IN  [threw |-> throwing # {},
         outcomes |-> SubSeq(results, 1, last),
         developmentApplications |-> pushApplications(results, 1, last, applications)]

parseGroups(groups, applications) == parseOutcomes(outcomesOf(groups), applications)

RECURSIVE insertRows(_, _, _)
\* Lines 1296-1297 with insertRow (lines 516-536): insert or ignore, the
\* applicationNumber being the primary key.
insertRows(rows, applications, i) ==
    IF i > Len(applications) THEN rows
    ELSE insertRows(
             IF \E row \in rows : row.applicationNumber = applications[i].applicationNumber
             THEN rows ELSE rows \cup {applications[i]},
             applications, i + 1)

\* Lines 1252-1282: none, one or two documents are selected.
SelectPdfUrls ==
    /\ pc = "main"
    /\ \E selected \in 0..2 :
          /\ selectedPdfUrls' = selected
          /\ documentIndex' = IF selected = 0 THEN 0 ELSE 1
          /\ pc' = IF selected = 0 THEN "complete" ELSE "request"
    /\ UNCHANGED <<numPages, pageIndex, pdf, pdfPage, liveDecodes, decodes, outcomes,
                   developmentApplications, database>>
    /\ UNCHANGED pageVars
    /\ UNCHANGED exceptRun

\* Lines 1084-1096: the document is fetched; it has some number of pages.
Request ==
    /\ pc = "request"
    /\ developmentApplications' = <<>>
    /\ \E pages \in 0..MaxPages : numPages' = pages
    /\ pageIndex' = 0
    /\ pc' = "getDocument"
    /\ UNCHANGED <<selectedPdfUrls, documentIndex, pdf, pdfPage, liveDecodes, decodes,
                   outcomes, database>>
    /\ UNCHANGED pageVars
    /\ UNCHANGED exceptRun

\* Lines 1097-1099 without the test of line 1098: a page is asked for whatever
\* numPages is.
GetDocumentNoBreak ==
    /\ pc = "getDocument"
    /\ decodes' = decodes + 1
    /\ pdf' = decodes + 1
    /\ liveDecodes' = liveDecodes \cup {decodes + 1}
    /\ pc' = "getPage"
    /\ pdfPage' = NoPage
    /\ outcomes' = <<>>
    /\ pageElements' = <<>>
    /\ pageCells' = <<>>
    /\ startElements' = <<>>
    /\ applicationElementGroups' = <<>>
    /\ segmented' = FALSE
    /\ UNCHANGED <<selectedPdfUrls, documentIndex, numPages, pageIndex,
                   developmentApplications, database>>
    /\ UNCHANGED exceptRun

\* Lines 1097-1099: a new decode; the loop is left when the pages are done.
GetDocument ==
    /\ pc = "getDocument"
    /\ decodes' = decodes + 1
    /\ pdf' = decodes + 1
    /\ liveDecodes' = liveDecodes \cup {decodes + 1}
    /\ pc' = IF pageIndex >= numPages THEN "insert" ELSE "getPage"
    /\ pdfPage' = NoPage
    /\ outcomes' = <<>>
    /\ pageElements' = <<>>
    /\ pageCells' = <<>>
    /\ startElements' = <<>>
    /\ applicationElementGroups' = <<>>
    /\ segmented' = FALSE
    /\ UNCHANGED <<selectedPdfUrls, documentIndex, numPages, pageIndex,
                   developmentApplications, database>>
    /\ UNCHANGED exceptRun

\* Line 1102.
GetPage ==
    /\ pc = "getPage"
    /\ \E page \in Pages : pdfPage' = page
    /\ pc' = "parseCells"
    /\ UNCHANGED <<selectedPdfUrls, documentIndex, numPages, pageIndex, pdf, liveDecodes,
                   decodes, outcomes, developmentApplications, database>>
    /\ UNCHANGED pageVars
    /\ UNCHANGED exceptRun

\* Line 1107: parseCells on the line-candidates of the page.
ParseCellsOfPage ==
    /\ pc = "parseCells"
    /\ pageCells' = cellsOfLines(pdfPage.lines)
    /\ pc' = "parseElements"
    /\ UNCHANGED <<pageElements, startElements, applicationElementGroups, segmented>>
    /\ UNCHANGED <<selectedPdfUrls, documentIndex, numPages, pageIndex, pdf, pdfPage,
                   liveDecodes, decodes, outcomes, developmentApplications, database>>
    /\ UNCHANGED exceptRun

\* Line 1111.
ParseElementsOfPage ==
    /\ pc = "parseElements"
    /\ pageElements' = pdfPage.elements
    /\ pc' = "destroy"
    /\ UNCHANGED <<pageCells, startElements, applicationElementGroups, segmented>>
    /\ UNCHANGED <<selectedPdfUrls, documentIndex, numPages, pageIndex, pdf, pdfPage,
                   liveDecodes, decodes, outcomes, developmentApplications, database>>
    /\ UNCHANGED exceptRun

\* Line 1116.
Destroy ==
    /\ pc = "destroy"
    /\ liveDecodes' = liveDecodes \ {pdf}
    /\ pc' = "extract"
    /\ UNCHANGED <<selectedPdfUrls, documentIndex, numPages, pageIndex, pdf, pdfPage,
                   decodes, outcomes, developmentApplications, database>>
    /\ UNCHANGED pageVars
    /\ UNCHANGED exceptRun

\* Lines 1120-1196 and the step of the loop: no await, so one step.  A
\* TypeError rejects the promise of parsePdf and with it that of main.
ExtractApplications ==
    /\ pc = "extract"
    /\ \E sortedElements \in {sort(normaliseElements(pageElements, pdfPage.rotate),
                                   "elementComparer")} :
       \E ownedCells \in {assignOwners(sort(normaliseCells(pageCells, pdfPage.rotate),
                                            "cellComparer"),
                                       sortedElements)} :
       \E starts \in {findStartElements(sortedElements)} :
       \E groups \in {groupsOf(sortedElements, ownedCells, starts)} :
       \E parsed \in {parseGroups(groups, developmentApplications)} :
           /\ pageElements' = sortedElements
           /\ pageCells' = ownedCells
           /\ startElements' = starts
           /\ applicationElementGroups' = groups
           /\ outcomes' = parsed.outcomes
           /\ developmentApplications' = parsed.developmentApplications
           /\ pageIndex' = IF parsed.threw THEN pageIndex ELSE pageIndex + 1
           /\ pc' = IF parsed.threw THEN "rejected"
                    ELSE IF pageIndex + 1 < PageLimit THEN "getDocument"
                    ELSE "insert"
    /\ segmented' = TRUE
    /\ UNCHANGED <<selectedPdfUrls, documentIndex, numPages, pdf, pdfPage, liveDecodes,
                   decodes, database>>
    /\ UNCHANGED exceptRun

\* Lines 1286-1298: the rows of the document are inserted, and the next
\* document, if any, is parsed.
InsertRows ==
    /\ pc = "insert"
    /\ database' = insertRows(database, developmentApplications, 1)
    /\ documentIndex' = IF documentIndex < selectedPdfUrls THEN documentIndex + 1
                        ELSE documentIndex
    /\ pc' = IF documentIndex < selectedPdfUrls THEN "request" ELSE "complete"
    /\ UNCHANGED <<selectedPdfUrls, numPages, pageIndex, pdf, pdfPage, liveDecodes,
                   decodes, outcomes, developmentApplications>>
    /\ UNCHANGED pageVars
    /\ UNCHANGED exceptRun

\* getDocument, getPage, getOperatorList or getTextContent rejects: nothing
\* catches it before line 1301.
DecoderRejects ==
    /\ pc \in {"getDocument", "getPage", "parseCells", "parseElements"}
    /\ pc' = "rejected"
    /\ UNCHANGED <<selectedPdfUrls, documentIndex, numPages, pageIndex, pdf, pdfPage,
                   liveDecodes, decodes, outcomes, developmentApplications, database>>
    /\ UNCHANGED pageVars
    /\ UNCHANGED exceptRun

RunNext ==
    \/ SelectPdfUrls \/ Request \/ GetDocument \/ GetPage \/ ParseCellsOfPage
    \/ ParseElementsOfPage \/ Destroy \/ ExtractApplications \/ InsertRows
    \/ DecoderRejects

SpecRun == Init /\ [][RunNext]_vars

(***************************************************************************)
(* What the claims about the run speak of.                                 *)
(***************************************************************************)
\* TRUE when the section meets one of the conditions of the required-field
\* checks of lines 850, 862, 888 and 896.
failsRequiredCheck(group) ==
    LET bounds == findTextBounds(group.elements, ApplicationNoText)
        addressHeading == findHeadingCell(group.cells, DevelopmentAddressHeading, 1)
        addressCell == IF addressHeading = 0 THEN 0
                       ELSE findRightCell(group.cells, group.cells[addressHeading], 1)
    IN  \/ bounds = <<>>
        \/ bounds # <<>> /\ captureApplicationNumber(group.elements, bounds[1]) = <<>>
        \/ addressHeading = 0
        \/ addressCell # 0 /\ isBlank(cellText(group.cells[addressCell]))

\* TRUE once lines 1120-1196 have run on the page the run stands at.
pageExtracted == segmented /\ pc \in {"getDocument", "insert", "rejected"}

(***************************************************************************)
(* C2: a section that fails a required-field check (no label, blank        *)
(* identifier, no DEVELOPMENT ADDRESS: label cell, blank address) yields   *)
(* no record and raises no error, and parseApplicationElements is still    *)
(* run on every other section of the page.                                 *)
(***************************************************************************)
C2_FailedCheckIsNotFatal ==
    pageExtracted =>
        \A i \in 1..Len(applicationElementGroups) :
            failsRequiredCheck(applicationElementGroups[i]) =>
                /\ Len(outcomes) = Len(applicationElementGroups)
                /\ outcomes[i] = returned(<<>>)

(***************************************************************************)
(* C3: a page or document that raises an error never aborts the run: when  *)
(* the run has ended, every selected document has been parsed to its last  *)
(* page and every record extracted is in the database.                     *)
(***************************************************************************)
C3_RunSurvivesErrors ==
    pc \in {"complete", "rejected"} =>
        /\ documentIndex = selectedPdfUrls
        /\ pageIndex >= numPages
        /\ \A i \in 1..Len(developmentApplications) :
              \E row \in database :
                  row.applicationNumber = developmentApplications[i].applicationNumber

(***************************************************************************)
(* C10: each page is read from a decode that getDocument created for that  *)
(* page index, and that decode is destroyed before getDocument is called   *)
(* for the next page index, so that at most one decode is live at any      *)
(* time.                                                                   *)
(***************************************************************************)
C10_AtMostOneLiveDecode ==
    /\ Cardinality(liveDecodes) <= 1
    /\ pc \in {"getPage", "parseCells", "parseElements", "destroy"} =>
          (pdf = decodes /\ liveDecodes = {pdf})

(***************************************************************************)
(* SpecLong: the run on documents whose page count is near or beyond the   *)
(* limit of line 1096.  The pages are blank, so that the loop of parsePdf  *)
(* can be followed to its end.                                             *)
(***************************************************************************)
\* The page counts pdf.numPages reports.
LongPageCounts == {0, 1, PageLimit - 1, PageLimit, PageLimit + 1, 2 * PageLimit}

\* Lines 1084-1096: the document is fetched; it has some number of pages.
RequestLong ==
    /\ pc = "request"
    /\ developmentApplications' = <<>>
    /\ \E pages \in LongPageCounts : numPages' = pages
    /\ pageIndex' = 0
    /\ pc' = "getDocument"
    /\ UNCHANGED <<selectedPdfUrls, documentIndex, pdf, pdfPage, liveDecodes, decodes,
                   outcomes, database>>
    /\ UNCHANGED pageVars
    /\ UNCHANGED exceptRun

\* Line 1102: the page has no rule and no text.
GetBlankPage ==
    /\ pc = "getPage"
    /\ pdfPage' = NoPage
    /\ pc' = "parseCells"
    /\ UNCHANGED <<selectedPdfUrls, documentIndex, numPages, pageIndex, pdf, liveDecodes,
                   decodes, outcomes, developmentApplications, database>>
    /\ UNCHANGED pageVars
    /\ UNCHANGED exceptRun

LongNext ==
    \/ SelectPdfUrls \/ RequestLong \/ GetDocument \/ GetBlankPage \/ ParseCellsOfPage
    \/ ParseElementsOfPage \/ Destroy \/ ExtractApplications \/ InsertRows
    \/ DecoderRejects

\* Every await of the run settles: the step that follows it is taken.
SpecLong == Init /\ [][LongNext]_vars /\ WF_vars(LongNext)

\* TRUE while parsePdf is reading the page numbered pageIndex + 1.
readingPage == pc \in {"getPage", "parseCells", "parseElements", "destroy", "extract"}

(***************************************************************************)
(* C11: parsePdf terminates after reading at most PageLimit pages whatever *)
(* page count the decoder reports: a page is read only at an index below   *)
(* numPages and below PageLimit, the loop is left at the first index that  *)
(* is >= numPages or at index PageLimit, whichever comes first, and every  *)
(* call of parsePdf comes to its end.                                      *)
(***************************************************************************)
C11_PageLoopEnds ==
    /\ [](/\ pageIndex <= PageLimit
          /\ readingPage => (pageIndex < numPages /\ pageIndex < PageLimit)
          /\ pc = "insert" => pageIndex = Min2(numPages, PageLimit))
    /\ (pc = "getDocument") ~> (pc \in {"insert", "rejected"})

C11_Witness == pc = "insert" /\ numPages > PageLimit /\ pageIndex = PageLimit

(***************************************************************************)
(* SpecGeom: the functions of the geometry kernel (lines 597-659) and the  *)
(* sort of lines 1045-1046, each called on rectangles and lines drawn from *)
(* a pool.                                                                 *)
(***************************************************************************)
\* Rectangles that lie apart, touch, overlap and contain one another, some
\* of no area and some with a negative width or height.
RectanglePool ==
    [x : {0, 1, 3}, y : {0, 2, 4}, width : {-1, 0, 2}, height : {-1, 0, 3}]

\* Lines of every direction, some of no length.
SegmentPool == [x1 : {0, 1}, y1 : {0, 1}, x2 : {0, 1, 2}, y2 : {0, 1, 2}]

\* One more rectangle is given; the third, which only the sort takes, has a
\* width and a height above 0.
DrawRectangle ==
    /\ applied = "none"
    /\ segments = <<>>
    /\ Len(rectangles) < 3
    /\ \E r \in RectanglePool :
          /\ Len(rectangles) = 2 => (r.width > 0 /\ r.height > 0)
          /\ rectangles' = Append(rectangles, r)
    /\ UNCHANGED <<segments, applied, result>>
    /\ UNCHANGED exceptGeom

\* One more line is given.
DrawLine ==
    /\ applied = "none"
    /\ rectangles = <<>>
    /\ Len(segments) < 2
    /\ \E l \in SegmentPool : segments' = Append(segments, l)
    /\ UNCHANGED <<rectangles, applied, result>>
    /\ UNCHANGED exceptGeom

\* intersectRectangles(rectangle1, rectangle2), and the percentage of
\* rectangle1 that lies in rectangle2.
ApplyIntersectRectangles ==
    /\ applied = "none"
    /\ Len(rectangles) = 2
    /\ applied' = "intersectRectangles"
    /\ result' = [rectangle |-> intersectRectangles(rectangles[1], rectangles[2]),
                  percentage |-> getPercentageOfElementInCell(rectangles[1], rectangles[2])]
    /\ UNCHANGED <<rectangles, segments>>
    /\ UNCHANGED exceptGeom

\* union(rectangle1, rectangle2).
ApplyUnion ==
    /\ applied = "none"
    /\ Len(rectangles) = 2
    /\ applied' = "union"
    /\ result' = union(rectangles[1], rectangles[2])
    /\ UNCHANGED <<rectangles, segments>>
    /\ UNCHANGED exceptGeom

\* rotate90Clockwise(rectangle), on the rectangle the call before it left.
ApplyRotate90Clockwise ==
    /\ Len(rectangles) = 1
    /\ \/ /\ applied = "none"
          /\ result' = [rectangle |-> rotate90Clockwise(rectangles[1]), times |-> 1]
       \/ /\ applied = "rotate90Clockwise"
          /\ result.times < 4
          /\ result' = [rectangle |-> rotate90Clockwise(result.rectangle),
                        times |-> result.times + 1]
    /\ applied' = "rotate90Clockwise"
    /\ UNCHANGED <<rectangles, segments>>
    /\ UNCHANGED exceptGeom

\* cells.sort(cellComparer).
ApplySort ==
    /\ applied = "none"
    /\ Len(rectangles) = 3
    /\ applied' = "sort"
    /\ result' = sort(rectangles, "cellComparer")
    /\ UNCHANGED <<rectangles, segments>>
    /\ UNCHANGED exceptGeom

\* intersectLines(line1, line2, onlyWithinLineSegments).
ApplyIntersectLines ==
    /\ applied = "none"
    /\ Len(segments) = 2
    /\ applied' = "intersectLines"
    /\ \E onlyWithinLineSegments \in BOOLEAN :
          result' = [onlyWithinLineSegments |-> onlyWithinLineSegments,
                     point |-> intersectLines(segments[1], segments[2],
                                              onlyWithinLineSegments)]
    /\ UNCHANGED <<rectangles, segments>>
    /\ UNCHANGED exceptGeom

GeomNext ==
    \/ DrawRectangle \/ DrawLine \/ ApplyIntersectRectangles \/ ApplyUnion
    \/ ApplyRotate90Clockwise \/ ApplySort \/ ApplyIntersectLines

SpecGeom == Init /\ [][GeomNext]_vars

(***************************************************************************)
(* What the claims about the geometry kernel speak of.                     *)
(***************************************************************************)
\* The sides of a rectangle on the page.
leftOf(r) == Min2(r.x, r.x + r.width)
rightOf(r) == Max2(r.x, r.x + r.width)
topOf(r) == Min2(r.y, r.y + r.height)
bottomOf(r) == Max2(r.y, r.y + r.height)

\* The two rectangles have no inner point in common.
disjoint(r1, r2) ==
    \/ rightOf(r1) <= leftOf(r2) \/ rightOf(r2) <= leftOf(r1)
    \/ bottomOf(r1) <= topOf(r2) \/ bottomOf(r2) <= topOf(r1)

\* The percentage num / den is the number k.
percentageIs(q, k) == q.den # 0 /\ q.num = k * q.den

zeroRectangle == [x |-> 0, y |-> 0, width |-> 0, height |-> 0]

\* The sequences that hold the entries of array, each once, in some order.
permutationsOf(array) ==
    {[i \in 1..Len(array) |-> array[p[i]]] :
        p \in {q \in [1..Len(array) -> 1..Len(array)] :
                  \A i, j \in 1..Len(array) : i # j => q[i] # q[j]}}

(***************************************************************************)
(* C13: the comparator of the scan order of cells and elements is a total  *)
(* order: it is antisymmetric (a before b exactly when b is after a, and   *)
(* neither before the other only when they are the same rectangle) and     *)
(* transitive, so sorting gives the same sequence for every permutation of *)
(* the same cells.                                                         *)
(***************************************************************************)
C13_ScanOrderIsTotal ==
    applied = "sort" =>
        /\ \A a, b \in Range(rectangles) :
              /\ cellComparer(a, b) = -cellComparer(b, a)
              /\ cellComparer(a, b) = 0 => a = b
        /\ \A a, b, c \in Range(rectangles) :
              (cellComparer(a, b) <= 0 /\ cellComparer(b, c) <= 0)
                 => cellComparer(a, c) <= 0
        /\ \A permuted \in permutationsOf(rectangles) :
              sort(permuted, "cellComparer") = result

(***************************************************************************)
(* C15: for every pair of disjoint rectangles intersectRectangles returns  *)
(* a rectangle of area 0; for every rectangle r, intersectRectangles(r, r) *)
(* equals r and the overlap percentage of r with itself is 100.            *)
(***************************************************************************)
C15_IntersectOfDisjointAndOfSelf ==
    applied = "intersectRectangles" =>
        /\ disjoint(rectangles[1], rectangles[2]) => getArea(result.rectangle) = 0
        /\ rectangles[1] = rectangles[2] =>
              /\ result.rectangle = rectangles[1]
              /\ percentageIs(result.percentage, 100)

\* The same, with what the code gives for a rectangle of no area (0%, there
\* being nothing to take a fraction of) and for a rectangle whose width or
\* height is negative (the rectangle of zeroes, and 0%).
C15_IntersectByShape ==
    applied = "intersectRectangles" =>
        /\ disjoint(rectangles[1], rectangles[2]) => getArea(result.rectangle) = 0
        /\ rectangles[1] = rectangles[2] =>
              LET r == rectangles[1]
              IN  /\ (r.width >= 0 /\ r.height >= 0) => result.rectangle = r
                  /\ (r.width < 0 \/ r.height < 0) => result.rectangle = zeroRectangle
                  /\ (r.width > 0 /\ r.height > 0) => percentageIs(result.percentage, 100)
                  /\ (r.width <= 0 \/ r.height <= 0) => percentageIs(result.percentage, 0)

C15_Witness ==
    /\ applied = "intersectRectangles"
    /\ rectangles[1] = rectangles[2]
    /\ rectangles[1].width > 0 /\ rectangles[1].height > 0 /\ rectangles[1].x > 0
    /\ result.rectangle = rectangles[1]
    /\ percentageIs(result.percentage, 100)

(***************************************************************************)
(* C16: intersectLines returns none for every pair of lines in which       *)
(* either line has zero length or the two lines are parallel, whatever the *)
(* direction and the lengths, for both values of onlyWithinLineSegments.   *)
(***************************************************************************)
C16_NoneForParallelOrZeroLength ==
    applied = "intersectLines" =>
        LET line1 == segments[1]
            line2 == segments[2]
            zeroLength(l) == l.x1 = l.x2 /\ l.y1 = l.y2
            parallel == (line1.x2 - line1.x1) * (line2.y2 - line2.y1)
                           = (line2.x2 - line2.x1) * (line1.y2 - line1.y1)
        IN  (zeroLength(line1) \/ zeroLength(line2) \/ parallel) => result.point = noPoint

(***************************************************************************)
(* C17: union(r1, r2) is the smallest rectangle covering both r1 and r2,   *)
(* for every pair of rectangles with non-negative width and height,        *)
(* whichever of the two has the smaller x or y.                            *)
(***************************************************************************)
C17_UnionIsSmallestCover ==
    (/\ applied = "union"
     /\ \A i \in 1..2 : rectangles[i].width >= 0 /\ rectangles[i].height >= 0)
        => result = [x |-> Min2(leftOf(rectangles[1]), leftOf(rectangles[2])),
                     y |-> Min2(topOf(rectangles[1]), topOf(rectangles[2])),
                     width |-> Max2(rightOf(rectangles[1]), rightOf(rectangles[2]))
                                  - Min2(leftOf(rectangles[1]), leftOf(rectangles[2])),
                     height |-> Max2(bottomOf(rectangles[1]), bottomOf(rectangles[2]))
                                   - Min2(topOf(rectangles[1]), topOf(rectangles[2]))]

MaxOperators == 5

\* pdfjs.Util.applyTransform(p, m).
applyTransform(p, m) ==
    <<p[1] * m[1] + p[2] * m[3] + m[5], p[1] * m[2] + p[2] * m[4] + m[6]>>

\* pdfjs.Util.transform(m1, m2).
utilTransform(m1, m2) ==
    <<m1[1] * m2[1] + m1[3] * m2[2], m1[2] * m2[1] + m1[4] * m2[2],
      m1[1] * m2[3] + m1[3] * m2[4], m1[2] * m2[3] + m1[4] * m2[4],
      m1[1] * m2[5] + m1[3] * m2[6] + m1[5], m1[2] * m2[5] + m1[4] * m2[6] + m1[6]>>

\* Lines 948-958: the rectangle whose four numbers start at argumentIndex
\* (from 0), under the transform m.
rectangleUnder(numbers, argumentIndex, m) ==
    LET x1 == numbers[argumentIndex + 1]
        y1 == numbers[argumentIndex + 2]
        width == numbers[argumentIndex + 3]
        height == numbers[argumentIndex + 4]
        corner1 == applyTransform(<<x1, y1>>, m)
        corner2 == applyTransform(<<x1 + width, y1 + height>>, m)
    IN  [x |-> corner1[1], y |-> corner1[2],
         width |-> corner2[1] - corner1[1], height |-> corner2[2] - corner1[2]]

RECURSIVE walkPath(_, _, _, _, _, _)
\* Lines 941-960: the subcommands from operationIndex (from 1) on; pending is
\* previousRectangle.  A rectangle under an undefined transform is a
\* TypeError.
walkPath(subcommands, numbers, operationIndex, argumentIndex, m, pending) ==
    IF operationIndex > Len(subcommands) THEN [threw |-> FALSE, pending |-> pending]
    ELSE IF subcommands[operationIndex] \in {"moveTo", "lineTo"}
         THEN walkPath(subcommands, numbers, operationIndex + 1, argumentIndex + 2, m, pending)
    ELSE IF subcommands[operationIndex] = "rectangle"
         THEN IF m = <<>> THEN [threw |-> TRUE, pending |-> pending]
              ELSE walkPath(subcommands, numbers, operationIndex + 1, argumentIndex + 4, m,
                            <<rectangleUnder(numbers, argumentIndex, m)>>)
    ELSE walkPath(subcommands, numbers, operationIndex + 1, argumentIndex, m, pending)

\* The matrices of the transform operators of the stream: y turned over, and
\* everything doubled.
TransformArgs == {<<1, 0, 0, -1, 0, 100>>, <<2, 0, 0, 2, 0, 0>>}

\* The paths of the stream: a thin rectangle, two strokes of a pen, and a
\* move followed by a rectangle.
PathArgs ==
    { << <<"rectangle">>, <<0, 0, 20, 1>> >>,
      << <<"moveTo", "lineTo">>, <<0, 0, 5, 5>> >>,
      << <<"moveTo", "rectangle">>, <<3, 3, 0, 0, 1, 20>> >> }

\* TRUE while the loop of line 931 has an operator to look at.
walking == ~walkThrew /\ Len(operators) < MaxOperators

\* A restore that reads the top of the stack and leaves it there.
RestoreWithoutPop ==
    /\ walking
    /\ operators' = Append(operators, [fn |-> "restore", args |-> <<>>])
    /\ transform' = IF transformStack = <<>> THEN <<>>
                    ELSE transformStack[Len(transformStack)]
    /\ UNCHANGED <<transformStack, previousRectangle, walkThrew, lines>>
    /\ UNCHANGED exceptStream

\* Lines 934-935.
Restore ==
    /\ walking
    /\ operators' = Append(operators, [fn |-> "restore", args |-> <<>>])
    /\ transform' = IF transformStack = <<>> THEN <<>>
                    ELSE transformStack[Len(transformStack)]
    /\ transformStack' = IF transformStack = <<>> THEN <<>>
                         ELSE SubSeq(transformStack, 1, Len(transformStack) - 1)
    /\ UNCHANGED <<previousRectangle, walkThrew, lines>>
    /\ UNCHANGED exceptStream

\* Lines 936-937.
Save ==
    /\ walking
    /\ operators' = Append(operators, [fn |-> "save", args |-> <<>>])
    /\ transformStack' = Append(transformStack, transform)
    /\ UNCHANGED <<transform, previousRectangle, walkThrew, lines>>
    /\ UNCHANGED exceptStream

\* Lines 938-939; pdfjs.Util.transform of an undefined transform is a
\* TypeError.
Transform ==
    /\ walking
    /\ \E argsArray \in TransformArgs :
          /\ operators' = Append(operators, [fn |-> "transform", args |-> argsArray])
          /\ transform' = IF transform = <<>> THEN transform
                          ELSE utilTransform(transform, argsArray)
    /\ walkThrew' = (transform = <<>>)
    /\ UNCHANGED <<transformStack, previousRectangle, lines>>
    /\ UNCHANGED exceptStream

\* Lines 940-960.
ConstructPath ==
    /\ walking
    /\ \E argsArray \in PathArgs :
          /\ operators' = Append(operators, [fn |-> "constructPath", args |-> argsArray])
          /\ \E walked \in {walkPath(argsArray[1], argsArray[2], 1, 0, transform,
                                       previousRectangle)} :
                /\ previousRectangle' = walked.pending
                /\ walkThrew' = walked.threw
    /\ UNCHANGED <<transform, transformStack, lines>>
    /\ UNCHANGED exceptStream

\* Lines 961-964: fill or eoFill.
Fill ==
    /\ walking
    /\ \E fn \in {"fill", "eoFill"} :
          operators' = Append(operators, [fn |-> fn, args |-> <<>>])
    /\ lines' = IF previousRectangle # <<>> THEN Append(lines, previousRectangle[1])
                ELSE lines
    /\ previousRectangle' = <<>>
    /\ UNCHANGED <<transform, transformStack, walkThrew>>
    /\ UNCHANGED exceptStream

\* An operator no branch of lines 934-964 names, stroke for one.
OtherOperator ==
    /\ walking
    /\ operators' = Append(operators, [fn |-> "stroke", args |-> <<>>])
    /\ UNCHANGED <<transform, transformStack, previousRectangle, walkThrew, lines>>
    /\ UNCHANGED exceptStream

StreamNext == Restore \/ Save \/ Transform \/ ConstructPath \/ Fill \/ OtherOperator

SpecStream == Init /\ [][StreamNext]_vars

\* TRUE when the rectangle has no negative width and no negative height.
nonNegative(r) == r.width >= 0 /\ r.height >= 0

(***************************************************************************)
(* C14: every rectangle the engine constructs has width >= 0 and           *)
(* height >= 0: the line-candidates emitted by the walk of the operator    *)
(* stream under any current transform, a transform that flips an axis      *)
(* included, the rectangle that waits for its fill, and the cells that     *)
(* parseCells builds from the line-candidates, also after the y-inversion  *)
(* and the rotation of lines 1123-1139.                                    *)
(***************************************************************************)
C14_NonNegativeSizes ==
    /\ \A i \in 1..Len(lines) : nonNegative(lines[i])
    /\ previousRectangle # <<>> => nonNegative(previousRectangle[1])
    /\ \A rotate \in {0, 90} :
          \A c \in Range(normaliseCells(cellsOfLines(lines), rotate)) : nonNegative(c)

(***************************************************************************)
(* C20: the walk emits a line-candidate only on a fill or even-odd fill    *)
(* operator that immediately follows the path whose rectangle subcommand   *)
(* set the pending rectangle; emitting appends the pending rectangle and   *)
(* clears the slot, so that no rectangle is emitted twice; a fill with no  *)
(* pending rectangle emits nothing and changes no state of the walk.       *)
(***************************************************************************)
C20_FillEmitsPendingOfPathBefore ==
    [][LET isFill == /\ Len(operators') = Len(operators) + 1
                     /\ operators'[Len(operators')].fn \in {"fill", "eoFill"}
       IN  /\ lines' # lines =>
                 /\ isFill
                 /\ Len(operators) >= 1
                 /\ operators[Len(operators)].fn = "constructPath"
                 /\ \E k \in 1..Len(operators[Len(operators)].args[1]) :
                       operators[Len(operators)].args[1][k] = "rectangle"
                 /\ previousRectangle # <<>>
                 /\ lines' = Append(lines, previousRectangle[1])
                 /\ previousRectangle' = <<>>
           /\ (isFill /\ previousRectangle = <<>>) =>
                 UNCHANGED <<lines, previousRectangle, transform, transformStack, walkThrew>>
      ]_vars

(***************************************************************************)
(* The table-based parsePdf, lines 292-389: the cells and elements of one  *)
(* page, after the co-ordinates were inverted, become the records of the   *)
(* page.                                                                   *)
(***************************************************************************)
\* The bound on the data rows of the page.
MaxRows == 2

\* Lines 110-122, with undefined written <<>>.
getHorizontalOverlapPercentage(rectangle1, rectangle2) ==
    IF rectangle1 = <<>> \/ rectangle2 = <<>> THEN [num |-> 0, den |-> 1]
    ELSE LET startX1 == rectangle1[1].x
             endX1 == rectangle1[1].x + rectangle1[1].width
             startX2 == rectangle2[1].x
             endX2 == rectangle2[1].x + rectangle2[1].width
             intersectionWidth == Min2(endX1, endX2) - Max2(startX1, startX2)
             unionWidth == Max2(endX1, endX2) - Min2(startX1, startX2)
         IN  IF \/ startX1 >= endX2 \/ endX1 <= startX2
                \/ rectangle1[1].width = 0 \/ rectangle2[1].width = 0
             THEN [num |-> 0, den |-> 1]
             ELSE [num |-> intersectionWidth * 100, den |-> unionWidth]

\* cells.find(...) of line 300: the index of the first cell holding more than
\* 40% of the element, or 0.
ownerCell(cellArray, element) ==
    LET owners == {k \in 1..Len(cellArray) :
                      exceeds(getPercentageOfElementInCell(element, cellArray[k]), 40)}
    IN  IF owners = {} THEN 0 ELSE least(owners)

\* Lines 299-303.
allocateElements(cellArray, elementArray) ==
    LET owner == [i \in 1..Len(elementArray) |-> ownerCell(cellArray, elementArray[i])]
    IN  [k \in 1..Len(cellArray) |->
            [cellArray[k] EXCEPT !.elements =
                @ \o join([i \in 1..Len(elementArray) |->
                              IF owner[i] = k THEN <<elementArray[i]>> ELSE <<>>])]]

\* Lines 305-312: each cell joins the first row whose first cell is at its
\* height, or starts a row.
RECURSIVE groupRows(_, _, _)
groupRows(cellArray, i, rows) ==
    IF i > Len(cellArray) THEN rows
    ELSE LET cell == cellArray[i]
             matching == {r \in 1..Len(rows) : Abs(rows[r][1].y - cell.y) < Tolerance}
         IN  groupRows(cellArray, i + 1,
                       IF matching = {} THEN Append(rows, <<cell>>)
                       ELSE [rows EXCEPT ![least(matching)] = Append(@, cell)])

\* Lines 323-326.
sortRows(rows) ==
    LET sorted == sort(rows, "rowComparer")
    IN  [r \in 1..Len(sorted) |-> sort(sorted[r], "rowCellComparer")]

\* /^pattern/i.test(text): the patterns are written in lower case.
testAtStart(pattern, text) ==
    /\ Len(text) >= Len(pattern)
    /\ toLowerCase(SubSeq(text, 1, Len(pattern))) = pattern

\* The regular expressions of lines 328-335.
ConditionsPattern == <<"c", "o", "n", "d", "i", "t", "i", "o", "n", "s">>
ReferralConcurrencePattern ==
    <<"r", "e", "f", "e", "r", "r", "a", "l", "/", "c", "o", "n", "c", "u", "r", "r", "e",
      "n", "c", "e">>
ApplicationNoPattern == <<"a", "p", "p", "l", "i", "c", "a", "t", "i", "o", "n", "n", "o", ".">>
DateReceivedPattern == <<"d", "a", "t", "e", "r", "e", "c", "e", "i", "v", "e", "d">>
AddressOfDevelopmentPattern ==
    <<"a", "d", "d", "r", "e", "s", "s", "o", "f", "d", "e", "v", "e", "l", "o", "p", "m",
      "e", "n", "t">>
ProposedDevelopmentPattern ==
    <<"p", "r", "o", "p", "o", "s", "e", "d", "d", "e", "v", "e", "l", "o", "p", "m", "e",
      "n", "t">>

\* cells.find(cell => /^pattern/i.test(... .join("").replace(/\s/g, ""))) of
\* lines 328-335: <<cell>>, or <<>> for undefined.
findHeadingByPattern(cellArray, pattern) ==
    LET found == {k \in 1..Len(cellArray) :
                     testAtStart(pattern, removeSpaces(cellText(cellArray[k])))}
    IN  IF found = {} THEN <<>> ELSE <<cellArray[least(found)]>>

\* row.find(cell => getHorizontalOverlapPercentage(cell, headingCell) > 90) of
\* lines 349-352: <<cell>>, or <<>> for undefined.
findInRow(row, headingCell) ==
    LET found == {k \in 1..Len(row) :
                     exceeds(getHorizontalOverlapPercentage(<<row[k]>>, headingCell), 90)}
    IN  IF found = {} THEN <<>> ELSE <<row[least(found)]>>

isUpperOrDigit(c) == isDigit(c) \/ \E u \in 1..Len(UpperChars) : UpperChars[u] = c

\* The test with digits only between the slashes.
testDigitsOnly(text) ==
    \E i, j \in 1..Len(text) :
        /\ i + 1 < j
        /\ text[i] = "/" /\ text[j] = "/"
        /\ i > 1 /\ isDigit(text[i - 1])
        /\ j < Len(text) /\ isDigit(text[j + 1])
        /\ \A k \in (i + 1)..(j - 1) : isDigit(text[k])

\* /[0-9]+\/[0-9A-Z]+\/[0-9]+/.test(text) of line 357: somewhere in the text
\* a digit, a slash, one or more digits or capitals, a slash, a digit.
testApplicationNumber(text) ==
    \E i, j \in 1..Len(text) :
        /\ i + 1 < j
        /\ text[i] = "/" /\ text[j] = "/"
        /\ i > 1 /\ isDigit(text[i - 1])
        /\ j < Len(text) /\ isDigit(text[j + 1])
        /\ \A k \in (i + 1)..(j - 1) : isUpperOrDigit(text[k])

\* array.join(" ")
joinWithSpace(array) ==
    join([i \in 1..Len(array) |-> IF i = 1 THEN array[i] ELSE <<" ">> \o array[i]])

\* moment(text, [ "D/MM/YY", "D/MM/YYYY" ], true) of line 379: the month takes
\* two digits.
parseDateMM(text) ==
    LET slashes == {i \in 1..Len(text) : text[i] = "/"}
    IN  IF Cardinality(slashes) = 2 /\ greatest(slashes) - least(slashes) = 3
        THEN parseDate(text) ELSE <<>>

NoDescriptionProvidedText ==
    <<"N", "o", " ", "D", "e", "s", "c", "r", "i", "p", "t", "i", "o", "n", " ", "P", "r",
      "o", "v", "i", "d", "e", "d">>

\* Lines 349-388 for one row: <<>> where the row is left by a continue,
\* otherwise the record pushed.
applicationOfRow(row, applicationNumberHeadingCell, receivedDateHeadingCell, addressHeadingCell, descriptionHeadingCell) ==
    LET applicationNumberCell == findInRow(row, applicationNumberHeadingCell)
        receivedDateCell == findInRow(row, receivedDateHeadingCell)
        addressCell == findInRow(row, addressHeadingCell)
        descriptionCell == findInRow(row, descriptionHeadingCell)
    IN  IF applicationNumberCell = <<>> THEN <<>>
        ELSE LET applicationNumber == toUpperCase(trim(cellText(applicationNumberCell[1])))
             IN  IF ~testApplicationNumber(applicationNumber) THEN <<>>
                 ELSE IF addressCell = <<>> THEN <<>>
                 ELSE LET address ==
                              trim(collapseSpaces(joinWithSpace(texts(addressCell[1].elements))))
                          description ==
                              IF descriptionCell # <<>>
                              THEN trim(collapseSpaces(
                                       joinWithSpace(texts(descriptionCell[1].elements))))
                              ELSE <<>>
                          receivedDate ==
                              IF receivedDateCell # <<>> /\ Len(receivedDateCell[1].elements) > 0
                              THEN parseDateMM(trim(collapseSpaces(cellText(receivedDateCell[1]))))
                              ELSE <<>>
                      IN  IF address = <<>> THEN <<>>
                          ELSE << [applicationNumber |-> applicationNumber,
                                   address |-> address,
                                   description |-> IF description = <<>>
                                                   THEN NoDescriptionProvidedText
                                                   ELSE description,
                                   receivedDate |-> IF receivedDate # <<>>
                                                    THEN formatDate(receivedDate[1])
                                                    ELSE <<>>] >>

\* Lines 327-389 on the sorted cells and rows of the page.
applicationsOfRows(cellArray, rows) ==
    LET conditionsHeadingCell == findHeadingByPattern(cellArray, ConditionsPattern)
        referralConcurrenceHeadingCell ==
            findHeadingByPattern(cellArray, ReferralConcurrencePattern)
        applicationNumberHeadingCell == findHeadingByPattern(cellArray, ApplicationNoPattern)
        receivedDateHeadingCell == findHeadingByPattern(cellArray, DateReceivedPattern)
        addressHeadingCell == findHeadingByPattern(cellArray, AddressOfDevelopmentPattern)
        descriptionHeadingCell == findHeadingByPattern(cellArray, ProposedDevelopmentPattern)
    IN  IF conditionsHeadingCell # <<>> /\ referralConcurrenceHeadingCell # <<>> THEN <<>>
        ELSE IF applicationNumberHeadingCell = <<>> THEN <<>>
        ELSE IF addressHeadingCell = <<>> THEN <<>>
        ELSE join([r \in 1..Len(rows) |->
                      applicationOfRow(rows[r], applicationNumberHeadingCell,
                                       receivedDateHeadingCell, addressHeadingCell,
                                       descriptionHeadingCell)])

\* Lines 292-389 on the cells and elements of the page.
applicationsOfTable(cellArray, elementArray) ==
    LET sortedCells == sort(cellArray, "cellComparer")
        sortedElements == sort(elementArray, "elementComparer")
        owned == allocateElements(sortedCells, sortedElements)
        rows == groupRows(owned, 1, <<>>)
    IN  IF Len(rows) = 0 THEN <<>> ELSE applicationsOfRows(owned, sortRows(rows))

(***************************************************************************)
(* The pages of the table-based parsePdf: a heading row and up to MaxRows  *)
(* data rows under it, every column 100 wide and every row 20 high.  A     *)
(* printed cell is [texts, reads, valid]: the texts of its elements, what  *)
(* a reader of the page takes the cell to say, and whether that is a       *)
(* usable value for the column.                                            *)
(***************************************************************************)
ColumnSets ==
    { <<"number", "address">>,
      <<"number", "address", "description">>,
      <<"number", "date", "address">>,
      <<"number", "address", "conditions", "referral">>,
      <<"number", "address", "conditions">>,
      <<"address", "description">>,
      <<"number", "description">> }

HeadingTexts(kind) ==
    CASE kind = "number" -> << <<"A", "p", "p", "l", "i", "c", "a", "t", "i", "o", "n", " ", "N", "o", ".">> >>
      [] kind = "address" ->
            <<<<"A", "d", "d", "r", "e", "s", "s", " ", "o", "f", " ">>,
              <<"D", "e", "v", "e", "l", "o", "p", "m", "e", "n", "t">>>>
      [] kind = "description" ->
            << <<"P", "r", "o", "p", "o", "s", "e", "d", " ", "D", "e", "v", "e", "l", "o", "p", "m", "e", "n", "t">> >>
      [] kind = "date" -> << <<"D", "a", "t", "e", " ", "R", "e", "c", "e", "i", "v", "e", "d">> >>
      [] kind = "conditions" -> << <<"C", "o", "n", "d", "i", "t", "i", "o", "n", "s">> >>
      [] OTHER ->
            << <<"R", "e", "f", "e", "r", "r", "a", "l", "/", "C", "o", "n", "c", "u", "r", "r", "e", "n", "c", "e">> >>

DataCells(kind) ==
    CASE kind = "number" ->
       { [texts |-> <<<<"1", "2", "3", "/">>,
                     <<"4", "5", "/", "6">>>>,
         reads |-> <<"1", "2", "3", "/", "4", "5", "/", "6">>,
         valid |-> TRUE],
       [texts |-> <<<<" ", "1", "2", "/", "a", "/", "3">>>>,
         reads |-> <<"1", "2", "/", "A", "/", "3">>,
         valid |-> TRUE],
       [texts |-> <<<<"1", "2">>>>,
         reads |-> <<"1", "2">>,
         valid |-> FALSE] }
      [] kind = "address" ->
       { [texts |-> <<<<"1", " ", " ", "M", "a", "i", "n", " ">>,
                     <<" ", "S", "t", "r", "e", "e", "t">>>>,
         reads |-> <<"1", " ", "M", "a", "i", "n", " ", "S", "t", "r", "e", "e", "t">>,
         valid |-> TRUE],
       [texts |-> <<<<" ">>>>,
         reads |-> <<>>,
         valid |-> FALSE] }
      [] kind = "description" ->
       { [texts |-> <<<<"S", "h", "e", "d">>>>,
         reads |-> <<"S", "h", "e", "d">>,
         valid |-> TRUE],
       [texts |-> <<>>,
         reads |-> <<>>,
         valid |-> FALSE] }
      [] kind = "date" ->
       { [texts |-> <<<<"1", "/", "0", "2", "/", "2", "0">>>>,
         reads |-> <<"2", "0", "2", "0", "-", "0", "2", "-", "0", "1">>,
         valid |-> TRUE],
       [texts |-> <<<<"1", "/", "2", "/", "2", "0">>>>,
         reads |-> <<>>,
         valid |-> FALSE],
       [texts |-> <<>>,
         reads |-> <<>>,
         valid |-> FALSE] }
      [] OTHER ->
       { [texts |-> <<<<"N", "i", "l">>>>,
         reads |-> <<"N", "i", "l">>,
         valid |-> TRUE] }

\* The data rows that can be printed under the columns from number j on.
RECURSIVE rowsOf(_, _)
rowsOf(columns, j) ==
    IF j > Len(columns) THEN {<<>>}
    ELSE {<<c>> \o rest : c \in DataCells(columns[j]), rest \in rowsOf(columns, j + 1)}

\* The cell of column j in row i as parseCells returns it after line 279, and
\* the elements printed in it as parseElements returns them after line 281.
tableCell(i, j) ==
    [x |-> 100 * (j - 1), y |-> 20 * i, width |-> 100, height |-> 20, elements |-> <<>>]
tableElementsOf(i, j, cellTexts) ==
    [k \in 1..Len(cellTexts) |->
        [text |-> cellTexts[k], x |-> 100 * (j - 1) + 5 + 30 * (k - 1), y |-> 20 * i + 5,
         width |-> 25, height |-> 10]]

\* Lines 268-281 on a page with only a heading row so far.
PlaceHeadingRow ==
    /\ ~tableParsed
    /\ tableLayout.columns = <<>>
    /\ \E columns \in ColumnSets :
          /\ tableLayout' = [tableLayout EXCEPT !.columns = columns]
          /\ tableCells' = [j \in 1..Len(columns) |-> tableCell(0, Len(columns) + 1 - j)]
          /\ tableElements' = join([j \in 1..Len(columns) |->
                                      tableElementsOf(0, j, HeadingTexts(columns[j]))])
    /\ UNCHANGED <<tableApplications, tableParsed, exceptTable>>

\* Lines 268-281 on a page with one more data row: after the inversion of
\* line 279 the lower cells come first.
PlaceDataRow ==
    /\ ~tableParsed
    /\ tableLayout.columns # <<>>
    /\ Len(tableLayout.rows) < MaxRows
    /\ \E row \in rowsOf(tableLayout.columns, 1) :
          /\ LET i == Len(tableLayout.rows) + 1
                 n == Len(row)
             IN  /\ tableLayout' = [tableLayout EXCEPT !.rows = Append(@, row)]
                 /\ tableCells' = [j \in 1..n |-> tableCell(i, n + 1 - j)] \o tableCells
                 /\ tableElements' =
                        tableElements \o join([j \in 1..n |-> tableElementsOf(i, j, row[j].texts)])
    /\ UNCHANGED <<tableApplications, tableParsed, exceptTable>>

\* Lines 292-389 for the page.
ParseTablePage ==
    /\ ~tableParsed
    /\ tableApplications' = applicationsOfTable(tableCells, tableElements)
    /\ tableParsed' = TRUE
    /\ UNCHANGED <<tableLayout, tableCells, tableElements, exceptTable>>

TableNext == PlaceHeadingRow \/ PlaceDataRow \/ ParseTablePage

SpecTable == Init /\ [][TableNext]_vars

\* What the page says, read by its printed cells.
hasColumn(kind) == \E j \in 1..Len(tableLayout.columns) : tableLayout.columns[j] = kind
columnOf(kind) == least({j \in 1..Len(tableLayout.columns) : tableLayout.columns[j] = kind})
validRow(row) == row[columnOf("number")].valid /\ row[columnOf("address")].valid
printedApplications ==
    join([i \in 1..Len(tableLayout.rows) |->
             IF validRow(tableLayout.rows[i])
             THEN << [applicationNumber |-> tableLayout.rows[i][columnOf("number")].reads,
                      address |-> tableLayout.rows[i][columnOf("address")].reads] >>
             ELSE <<>>])
identified(applications) ==
    [i \in 1..Len(applications) |->
        [applicationNumber |-> applications[i].applicationNumber,
         address |-> applications[i].address]]
conditionsPage == hasColumn("conditions") /\ hasColumn("referral")
defaultsWhereNoColumn ==
    /\ ~hasColumn("description") =>
          \A i \in 1..Len(tableApplications) :
              tableApplications[i].description = NoDescriptionProvidedText
    /\ ~hasColumn("date") =>
          \A i \in 1..Len(tableApplications) : tableApplications[i].receivedDate = <<>>

(***************************************************************************)
(* C19: a page whose grid has the heading cells "Application No." and      *)
(* "Address of Development" yields exactly one record per data row whose   *)
(* application-number cell matches digits/alphanumerics/digits and whose   *)
(* address cell is not blank, and none for the heading row; with no        *)
(* "Proposed Development" column the description of a record is "No        *)
(* Description Provided" and with no "Date Received" column its received   *)
(* date is empty.                                                          *)
(***************************************************************************)
C19_OneRecordPerValidRow ==
    (tableParsed /\ hasColumn("number") /\ hasColumn("address")) =>
        /\ identified(tableApplications) = printedApplications
        /\ defaultsWhereNoColumn

(***************************************************************************)
(* C19 as the code has it: the same for a page that does not have both a   *)
(* "Conditions" and a "Referral/Concurrence" heading cell; a page that has *)
(* both yields no record.                                                  *)
(***************************************************************************)
C19_OneRecordPerValidRowUnlessConditionsPage ==
    (tableParsed /\ hasColumn("number") /\ hasColumn("address")) =>
        IF conditionsPage THEN tableApplications = <<>>
        ELSE /\ identified(tableApplications) = printedApplications
             /\ defaultsWhereNoColumn

C19_Witness ==
    /\ tableParsed
    /\ tableLayout.columns = <<"number", "address">>
    /\ Len(tableLayout.rows) = 2
    /\ validRow(tableLayout.rows[1]) /\ ~validRow(tableLayout.rows[2])
    /\ Len(tableApplications) = 1
    /\ tableApplications[1].applicationNumber = <<"1", "2", "3", "/", "4", "5", "/", "6">>
    /\ tableApplications[1].description = NoDescriptionProvidedText
    /\ tableApplications[1].receivedDate = <<>>

(***************************************************************************)
(* The operator stream read as a text with brackets: save opens, restore   *)
(* closes.                                                                 *)
(***************************************************************************)
\* The number of operators fn among the first k.
countOf(fn, k) == Cardinality({j \in 1..k : operators[j].fn = fn})
\* The saves not yet matched after k operators.
openSaves(k) == countOf("save", k) - countOf("restore", k)
\* No restore without an earlier unmatched save.
wellNested == \A k \in 1..Len(operators) : openSaves(k) >= 0
\* The save that the restore at k closes.
matchingSave(k) ==
    greatest({j \in 1..(k - 1) : operators[j].fn = "save" /\ openSaves(j - 1) = openSaves(k)})
\* The transform the stream asks for after k operators: the identity at the
\* start, composed by a transform, taken back by a restore to what it was at
\* the matching save.
RECURSIVE transformAfter(_)
transformAfter(k) ==
    IF k = 0 THEN <<1, 0, 0, 1, 0, 0>>
    ELSE IF operators[k].fn = "transform"
         THEN utilTransform(transformAfter(k - 1), operators[k].args)
    ELSE IF operators[k].fn = "restore" THEN transformAfter(matchingSave(k))
    ELSE transformAfter(k - 1)
fnAt(k) == operators[k].fn

(***************************************************************************)
(* C21: in an operator stream in which no restore comes without an earlier *)
(* unmatched save, the current transform starts as the identity and after  *)
(* a restore is the transform that was current at the matching save,       *)
(* whatever transform operators and nested pairs came in between.          *)
(***************************************************************************)
C21_RestoreReturnsToMatchingSave ==
    wellNested =>
        /\ ~walkThrew
        /\ transform = transformAfter(Len(operators))
        /\ Len(transformStack) = openSaves(Len(operators)) + 1

C21_Witness ==
    /\ Len(operators) = 5
    /\ fnAt(1) = "save" /\ fnAt(2) = "transform" /\ fnAt(3) = "save"
    /\ fnAt(4) = "transform" /\ fnAt(5) = "restore"
    /\ operators[2].args # operators[4].args
    /\ transform = operators[2].args

(***************************************************************************)
(* The lattice read as a set of points: the neighbours of a point.         *)
(***************************************************************************)
rightOfPoint(lattice, p) == {q \in lattice : Abs(q.y - p.y) < Tolerance /\ q.x > p.x}
belowPoint(lattice, p) == {q \in lattice : Abs(q.x - p.x) < Tolerance /\ q.y > p.y}
cornered(lattice) ==
    {p \in lattice : rightOfPoint(lattice, p) # {} /\ belowPoint(lattice, p) # {}}
spanOf(lattice, p) ==
    [elements |-> <<>>, x |-> p.x, y |-> p.y,
     width |-> least({q.x : q \in rightOfPoint(lattice, p)}) - p.x,
     height |-> least({q.y : q \in belowPoint(lattice, p)}) - p.y]

(***************************************************************************)
(* C22: parseCells emits a cell for a lattice point exactly when the point *)
(* has a right neighbour (the nearest point with |dy| < Tolerance and a    *)
(* greater x) and a down neighbour (the nearest point with |dx| <          *)
(* Tolerance and a greater y); the cell spans from the point to            *)
(* (rightNeighbour.x, downNeighbour.y); there is at most one cell for a    *)
(* lattice point and every cell has a width and a height above 0.          *)
(***************************************************************************)
C22_CellPerCorneredPoint ==
    reconstructed =>
        \A lattice \in {Range(latticeOf(lines))} :
            /\ Range(gridCells) = {spanOf(lattice, p) : p \in cornered(lattice)}
            /\ Len(gridCells) = Cardinality(cornered(lattice))
            /\ \A p \in lattice :
                  Cardinality({i \in 1..Len(gridCells) :
                                  gridCells[i].x = p.x /\ gridCells[i].y = p.y}) <= 1
            /\ \A i \in 1..Len(gridCells) : gridCells[i].width > 0 /\ gridCells[i].height > 0

C22_Witness ==
    /\ reconstructed
    /\ Len(gridCells) = 4
    /\ \E lattice \in {Range(latticeOf(lines))} :
          /\ Cardinality(lattice) = 9
          /\ Cardinality(cornered(lattice)) = 4
          /\ \E p \in lattice : /\ Cardinality(rightOfPoint(lattice, p)) = 2
                                /\ Cardinality(belowPoint(lattice, p)) = 2

(***************************************************************************)
(* SpecRight: the elements of a line of text placed one by one, and the    *)
(* do-while loop of findStartElements (lines 798-820; lines 734-754 of     *)
(* findTextBounds are the same loop) run from one of them, one action for  *)
(* each pass of the loop.                                                  *)
(***************************************************************************)
\* The bound on the elements placed.
MaxNeighbours == 3

NeighbourShapes ==
    {
      \* the start of a label
      [text |-> <<"A">>, x |-> 0, y |-> 0, width |-> 10, height |-> 10],
      \* the rest of the label, from the right edge on
      [text |-> <<"P", "P", "L", "I", "C", "A", "T", "I", "O", "N", "N", "O", ":">>, x |-> 10, y |-> 0, width |-> 10, height |-> 10],
      \* an element that starts 2 before the right edge of the first
      [text |-> <<"A">>, x |-> 8, y |-> 0, width |-> 10, height |-> 10],
      \* an element 35 after the right edge of the first
      [text |-> <<"A">>, x |-> 45, y |-> 0, width |-> 10, height |-> 10],
      \* a narrow element
      [text |-> <<"A">>, x |-> 12, y |-> 0, width |-> 2, height |-> 10],
      \* a narrow element with a long text
      [text |-> <<"A", "P", "P", "L", "I", "C", "A", "T", "I", "O", "N">>, x |-> 22, y |-> 0, width |-> 2, height |-> 10],
      \* an element half of which is at the height of the first
      [text |-> <<"A">>, x |-> 12, y |-> 5, width |-> 10, height |-> 10],
      \* an element six tenths of which are at the height of the first
      [text |-> <<"A">>, x |-> 12, y |-> 4, width |-> 10, height |-> 10],
      \* a tall element
      [text |-> <<"A">>, x |-> 12, y |-> -10, width |-> 10, height |-> 30],
      \* an element of no height
      [text |-> <<"A">>, x |-> 12, y |-> 5, width |-> 10, height |-> 0] }

\* parseElements returned one more element.
PlaceNeighbour ==
    /\ runPc = "place"
    /\ Len(neighbours) < MaxNeighbours
    /\ \E shape \in NeighbourShapes :
          neighbours' = Append(neighbours,
                               [id |-> Len(neighbours) + 1, text |-> shape.text,
                                x |-> shape.x, y |-> shape.y,
                                width |-> shape.width, height |-> shape.height])
    /\ UNCHANGED <<runElement, runElements, runMatches, runPc, rightCall>>
    /\ UNCHANGED exceptRight

\* Lines 793 and 798-800: the loop starts from an element whose text begins
\* with the first letter of FindText.
BeginRun ==
    /\ runPc = "place"
    /\ \E i \in 1..Len(neighbours) :
          /\ startsWith(toLowerCase(trim(neighbours[i].text)), lowerChar(Head(FindText)))
          /\ runElement' = neighbours[i]
    /\ runElements' = <<>>
    /\ runMatches' = <<>>
    /\ runPc' = "loop"
    /\ UNCHANGED <<neighbours, rightCall>>
    /\ UNCHANGED exceptRight

\* The match lines 810-816 push for the run, if any.
matchesAfter(matchArray, rightElement, run, threshold) ==
    IF threshold \in {0, 1, 2}
    THEN Append(matchArray, [element |-> rightElement, elements |-> run,
                             threshold |-> threshold, text |-> condense(join(texts(run)))])
    ELSE matchArray

\* One pass of the loop without the test of the length of the run.
RunPassUnbounded ==
    /\ runPc = "loop"
    /\ \E run \in {Append(runElements, runElement)} :
       \E threshold \in {matchThreshold(condense(join(texts(run))), FindText)} :
          /\ runElements' = run
          /\ IF threshold = TooLong
             THEN /\ runPc' = "broke"
                  /\ UNCHANGED <<runElement, runMatches, rightCall>>
             ELSE \E next \in {getRightElement(neighbours, runElement)} :
                     /\ runMatches' = matchesAfter(runMatches, runElement, run, threshold)
                     /\ rightCall' = << [element |-> runElement, returned |-> next] >>
                     /\ runElement' = next
                     /\ runPc' = IF next # undefined THEN "loop" ELSE "ended"
    /\ UNCHANGED neighbours
    /\ UNCHANGED exceptRight

\* Lines 802-820: one pass of the do-while loop, from the push to the test
\* of the while.
RunPass ==
    /\ runPc = "loop"
    /\ \E run \in {Append(runElements, runElement)} :
       \E threshold \in {matchThreshold(condense(join(texts(run))), FindText)} :
          /\ runElements' = run
          /\ IF threshold = TooLong
             THEN /\ runPc' = "broke"
                  /\ UNCHANGED <<runElement, runMatches, rightCall>>
             ELSE \E next \in {getRightElement(neighbours, runElement)} :
                     /\ runMatches' = matchesAfter(runMatches, runElement, run, threshold)
                     /\ rightCall' = << [element |-> runElement, returned |-> next] >>
                     /\ runElement' = next
                     /\ runPc' = IF next # undefined /\ Len(run) < 5 THEN "loop" ELSE "ended"
    /\ UNCHANGED neighbours
    /\ UNCHANGED exceptRight

RightNext == PlaceNeighbour \/ BeginRun \/ RunPass

\* What every pass does first (line 803), and no other action does.
PushOnRun == runPc = "loop" /\ runElements' = Append(runElements, runElement)

\* The loop is not suspended between two passes: a pass that can run, runs.
\* Between two passes RunPass is enabled, and its steps are the steps that
\* push on the run.
SpecRight == Init /\ [][RightNext]_vars /\ WF_runElements(PushOnRun)

\* What the claims say of a candidate r for the element e.
overlapsByMoreThanHalf(e, r) ==
    isVerticalOverlap(e, r) /\ exceeds(getVerticalOverlapPercentage(e, r), 50)
withinGap(e, r) == r.x - (e.x + e.width) < 30
afterRightEdge(e, r) == r.x > e.x + e.width
aboutAfterRightEdge(e, r) == r.x > e.x + e.width - Tolerance
leastDistance(e, r, candidates) ==
    \A i \in candidates : calculateDistance(e, r) <= calculateDistance(e, neighbours[i])

(***************************************************************************)
(* C23: whenever getRightElement(elements, e) returns an element r, r      *)
(* overlaps e vertically by more than 50%, r begins after the right edge   *)
(* of e (r.x > e.x + e.width) with a gap of less than 30, and r has the    *)
(* least directional distance from e among the candidates that meet those  *)
(* conditions; it returns none when no candidate meets them.               *)
(***************************************************************************)
C23_RightElementIsNearestAfterEdge ==
    \A c \in Range(rightCall) :
        LET candidates == {i \in 1..Len(neighbours) :
                              /\ overlapsByMoreThanHalf(c.element, neighbours[i])
                              /\ afterRightEdge(c.element, neighbours[i])
                              /\ withinGap(c.element, neighbours[i])}
        IN  IF c.returned = undefined THEN candidates = {}
            ELSE /\ \E i \in candidates : neighbours[i] = c.returned
                 /\ leastDistance(c.element, c.returned, candidates)

(***************************************************************************)
(* C23 as the code has it: the same with r beginning after the right edge  *)
(* of e less Tolerance (r.x > e.x + e.width - Tolerance).                  *)
(***************************************************************************)
C23_RightElementIsNearestAboutEdge ==
    \A c \in Range(rightCall) :
        LET candidates == {i \in 1..Len(neighbours) :
                              /\ overlapsByMoreThanHalf(c.element, neighbours[i])
                              /\ aboutAfterRightEdge(c.element, neighbours[i])
                              /\ withinGap(c.element, neighbours[i])}
        IN  IF c.returned = undefined THEN candidates = {}
            ELSE /\ \E i \in candidates : neighbours[i] = c.returned
                 /\ leastDistance(c.element, c.returned, candidates)

C23_Witness ==
    /\ Len(neighbours) = 3
    /\ \E c \in Range(rightCall) :
          /\ c.returned # undefined
          /\ c.returned.id # c.element.id
          /\ c.returned.x = c.element.x + c.element.width
          /\ \E i \in 1..Len(neighbours) :
                /\ neighbours[i].id \notin {c.element.id, c.returned.id}
                /\ overlapsByMoreThanHalf(c.element, neighbours[i])
                /\ aboutAfterRightEdge(c.element, neighbours[i])
                /\ withinGap(c.element, neighbours[i])
                /\ calculateDistance(c.element, neighbours[i])
                      > calculateDistance(c.element, c.returned)

\* The loop between two passes, after its break, and after its while.
runLength == Len(condense(join(texts(runElements))))
extensionGoesOn ==
    Len(runElements) < 5 /\ runElement # undefined /\ runLength <= Len(FindText) + 2
extensionTooLong == Len(runElements) <= 5 /\ runLength > Len(FindText) + 2
extensionSpent ==
    IF runElement = undefined THEN Len(runElements) <= 5 ELSE Len(runElements) = 5

(***************************************************************************)
(* C24: from each starting element the greedy extension examines at most   *)
(* 5 elements, and goes on exactly until the condensed text of the run is  *)
(* more than 2 characters longer than the target, no right neighbour is    *)
(* found or 5 elements have been examined; the loop comes to its end for   *)
(* every set of elements, those whose right-neighbour links form a cycle   *)
(* included.                                                               *)
(***************************************************************************)
C24_ExtensionEnds ==
    /\ [](CASE runPc = "loop" -> extensionGoesOn
            [] runPc = "broke" -> extensionTooLong
            [] runPc = "ended" -> extensionSpent
            [] OTHER -> runElements = <<>>)
    /\ (runPc = "loop") ~> (runPc \in {"broke", "ended"})

C24_Witness ==
    /\ runPc = "ended"
    /\ Len(runElements) = 5
    /\ \A i \in 1..5 : runElements[i].id = runElements[1].id
    /\ runElement # undefined

(***************************************************************************)
(* C29: getRightElement(elements, e) never returns e itself, whatever the  *)
(* width and the height of e, so that the greedy extension never appends   *)
(* the same element twice in succession.                                   *)
(***************************************************************************)
C29_NeverItself ==
    /\ \A c \in Range(rightCall) : c.returned.id # c.element.id
    /\ \A i \in 1..(Len(runElements) - 1) : runElements[i].id # runElements[i + 1].id

(***************************************************************************)
(* SpecCapture: the sections whose label has elements right of it, under   *)
(* it and across its right edge, given to parseApplicationElements in the  *)
(* order elementComparer leaves them in (line 1148).                       *)
(***************************************************************************)
\* The bound on the elements placed after the label.
MaxCaptured == 3

\* The label in one element, or in two.
LabelLayouts ==
    { << [text |-> ApplicationNoText, x |-> 0, y |-> 10, width |-> 40, height |-> 10] >>,
      << [text |-> <<"A", "P", "P", "L", "I", "C", "A", "T", "I", "O", "N">>,
          x |-> 0, y |-> 10, width |-> 25, height |-> 10],
         [text |-> <<"N", "O", ":">>, x |-> 27, y |-> 11, width |-> 13, height |-> 10] >> }

\* Where an element after the label is: right of the label at its height,
\* further right, across the right edge of the label, and one tenth and two
\* tenths at the height of the label.
CapturePlaces ==
    { [x |-> 45, y |-> 10], [x |-> 60, y |-> 10], [x |-> 36, y |-> 10],
      [x |-> 45, y |-> 19], [x |-> 45, y |-> 18] }

CaptureTexts == { <<"7">>, <<":", " ", "7", "/", "1">>, <<":", ":">> }

\* TRUE when elementComparer leaves the element after the last of the array.
sortsLast(elementArray, element) ==
    elementArray = <<>> \/ cellComparer(elementArray[Len(elementArray)], element) <= 0

\* parseElements returned the label.
PlaceLabel ==
    /\ ~sectionParsed
    /\ sectionElements = <<>> /\ sectionCells = <<>>
    /\ \E layout \in LabelLayouts :
          sectionElements' =
              [i \in 1..Len(layout) |->
                  [id |-> i, text |-> layout[i].text, x |-> layout[i].x, y |-> layout[i].y,
                   width |-> layout[i].width, height |-> layout[i].height]]
    /\ UNCHANGED <<sectionCells, developmentApplication, sectionParsed>>
    /\ UNCHANGED exceptFields

\* parseElements returned one more element of width 10 and height 10.
PlaceAfterLabel ==
    /\ ~sectionParsed
    /\ sectionElements # <<>> /\ sectionCells = <<>>
    /\ Cardinality({i \in 1..Len(sectionElements) : sectionElements[i].x >= 36}) < MaxCaptured
    /\ \E place \in CapturePlaces, text \in CaptureTexts :
       \E element \in {[id |-> Len(sectionElements) + 1, text |-> text,
                        x |-> place.x, y |-> place.y, width |-> 10, height |-> 10]} :
          /\ sortsLast(sectionElements, element)
          /\ sectionElements' = Append(sectionElements, element)
    /\ UNCHANGED <<sectionCells, developmentApplication, sectionParsed>>
    /\ UNCHANGED exceptFields

\* The row of the address, its heading cell and its value cell.
PlaceAddressRow ==
    /\ ~sectionParsed
    /\ sectionElements # <<>> /\ sectionCells = <<>>
    /\ LET row == FieldRows[3]
           headingElement == newElement(sectionElements, row.heading, 2, row.y + 1, 40, 8)
           withHeading == Append(sectionElements, headingElement)
           valueElement == newElement(withHeading, Street, 52, row.y + 1, 40, 8)
       IN  /\ sectionElements' = Append(withHeading, valueElement)
           /\ sectionCells' =
                  << [x |-> 0, y |-> row.y, width |-> 50, height |-> 10,
                      elements |-> <<headingElement>>],
                     [x |-> 50, y |-> row.y, width |-> 50, height |-> 10,
                      elements |-> <<valueElement>>] >>
    /\ UNCHANGED <<developmentApplication, sectionParsed>>
    /\ UNCHANGED exceptFields

CaptureNext == PlaceLabel \/ PlaceAfterLabel \/ PlaceAddressRow \/ ParseSection

SpecCapture == Init /\ [][CaptureNext]_vars

\* A hundred times the area of the element that lies right of the right edge
\* of the bounds and between their top and their bottom.
hundredfoldInside(element, bounds) ==
    LET across == (element.x + element.width) - Max2(element.x, bounds.x + bounds.width)
        down == Min2(element.y + element.height, bounds.y + bounds.height)
                    - Max2(element.y, bounds.y)
    IN  IF across > 0 /\ down > 0 THEN 100 * across * down ELSE 0
captured(bounds) ==
    SelectSeq(sectionElements,
              LAMBDA element :
                  hundredfoldInside(element, bounds) > 10 * element.width * element.height)
withoutSpacesAndColon(text) ==
    LET bare == SelectSeq(text, LAMBDA c : c # " ")
    IN  IF bare # <<>> /\ bare[1] = ":" THEN SubSeq(bare, 2, Len(bare)) ELSE bare
identifierRead(bounds) ==
    withoutSpacesAndColon(join([i \in 1..Len(captured(bounds)) |-> captured(bounds)[i].text]))

(***************************************************************************)
(* C25: in parseApplicationElements the identifier is the concatenation,   *)
(* in the order of the section's elements, of the texts of exactly those   *)
(* elements more than 10% of whose area lies in the capture rectangle,     *)
(* which starts at the right edge of the bounds of the matched label, has  *)
(* their y and their height and no limit on the right; whitespace and one  *)
(* leading colon are then removed.  A section whose identifier is empty    *)
(* gives no record.                                                        *)
(***************************************************************************)
C25_IdentifierIsCapturedText ==
    (sectionParsed /\ sectionCells # <<>>) =>
        \A bounds \in Range(findTextBounds(sectionElements, ApplicationNoText)) :
            IF identifierRead(bounds) = <<>>
            THEN developmentApplication = returned(<<>>)
            ELSE /\ recordReturned
                 /\ developmentApplication.value[1].applicationNumber = identifierRead(bounds)

C25_Witness ==
    /\ recordReturned
    /\ Len(sectionElements) = 6
    /\ sectionElements[2].x = 36 /\ sectionElements[2].text = <<":", ":">>
    /\ sectionElements[3].text = <<":", " ", "7", "/", "1">>
    /\ sectionElements[3].x = 60
    /\ sectionElements[4].y = 19 /\ sectionElements[4].text = <<"7">>
    /\ developmentApplication.value[1].applicationNumber = <<":", ":", "7", "/", "1">>

(***************************************************************************)
(* C26: on a page that declares rotation 90, lines 1123-1139 take each     *)
(* y-inverted cell (x, y, w, h) to (-(y + h), x, h, w) and each y-inverted *)
(* text element (x, y, w, h) to (-(y + h), x - h, w, h): the width and the *)
(* height of an element are those before the rotation, those of a cell are *)
(* swapped.  Checked on the step of lines 1120-1196, between the decoded   *)
(* rectangles before it and the rectangles it leaves.                      *)
(***************************************************************************)
\* The place and the size of a rectangle.
placeOf(r) == <<r.x, r.y, r.width, r.height>>

\* The number of rectangles of the array at the place given.
placedAt(array, place) == Cardinality({i \in 1..Len(array) : placeOf(array[i]) = place})

\* The y-inverted rectangle, by the arithmetic of the statement.
inverted(r) == <<r.x, -(r.y + r.height), r.width, r.height>>

\* (x, y, w, h) to (-(y + h), x, h, w).
quarterTurnOfCell(p) == <<-(p[2] + p[4]), p[1], p[4], p[3]>>

\* (x, y, w, h) to (-(y + h), x - h, w, h).
quarterTurnOfElement(p) == <<-(p[2] + p[4]), p[1] - p[4], p[3], p[4]>>

C26_QuarterTurnOfCellsAndElements ==
    [][(pc = "extract" /\ pdfPage.rotate = 90) =>
          /\ Len(pageElements') = Len(pageElements)
          /\ \A e \in Range(pageElements) :
                \E f \in Range(pageElements') :
                   /\ f.id = e.id /\ f.text = e.text
                   /\ placeOf(f) = quarterTurnOfElement(inverted(e))
                   /\ f.width = e.width /\ f.height = e.height
          /\ Len(pageCells') = Len(pageCells)
          /\ \A c \in Range(pageCells) :
                /\ placedAt(pageCells', quarterTurnOfCell(inverted(c)))
                      = Cardinality({i \in 1..Len(pageCells) :
                                        inverted(pageCells[i]) = inverted(c)})
                /\ \E d \in Range(pageCells') :
                      /\ placeOf(d) = quarterTurnOfCell(inverted(c))
                      /\ d.width = c.height /\ d.height = c.width]_vars

\* A page of one section declaring rotation 90 has been normalised: its
\* label, 40 wide and 10 high at (0, 10), is at (-20, -10) with the same
\* size, and its cell, 50 wide and 11 high at (0, 30), is at (-41, 0), 11
\* wide and 50 high.
C26_Witness ==
    /\ segmented /\ pdfPage.rotate = 90
    /\ Len(pageElements) = 6
    /\ \E f \in Range(pageElements) :
          f.text = ApplicationNoText /\ placeOf(f) = <<-20, -10, 40, 10>>
    /\ \E d \in Range(pageCells) : placeOf(d) = <<-41, 0, 11, 50>>

(***************************************************************************)
(* C27: on a page that declares rotation 0, 180 or 270 the rotation of     *)
(* lines 1132-1139 changes no cell and no element: each rectangle after    *)
(* the normalisation is the decoded one with y = -(y + height), its x, its *)
(* width, its height and its text unchanged.                               *)
(***************************************************************************)
C27_OnlyInvertedUnlessQuarterTurn ==
    [][(pc = "extract" /\ pdfPage.rotate \in {0, 180, 270}) =>
          /\ Len(pageElements') = Len(pageElements)
          /\ \A e \in Range(pageElements) :
                \E f \in Range(pageElements') :
                   /\ f.id = e.id /\ f.text = e.text
                   /\ f.x = e.x /\ f.width = e.width /\ f.height = e.height
                   /\ f.y = -(e.y + e.height)
          /\ Len(pageCells') = Len(pageCells)
          /\ \A c \in Range(pageCells) :
                placedAt(pageCells', <<c.x, -(c.y + c.height), c.width, c.height>>)
                   = placedAt(pageCells, placeOf(c))]_vars

\* A page of one section declaring rotation 270 has been normalised: the
\* label of the section is at (0, 10) and the cell of its DESCRIPTION:
\* label at (0, 30), both upright.
C27_Witness ==
    /\ segmented /\ pdfPage.rotate = 270
    /\ Len(pageElements) = 6
    /\ \E f \in Range(pageElements) :
          f.text = ApplicationNoText /\ placeOf(f) = <<0, 10, 40, 10>>
    /\ \E d \in Range(pageCells) : placeOf(d) = <<0, 30, 50, 11>>

(***************************************************************************)
(* C28: the list of records parsePdf builds never holds two records with   *)
(* the same applicationNumber: of the sections of all the pages that yield *)
(* one identifier only the first, pages in order and sections in order on  *)
(* a page, is kept, and the later ones leave the list as it was.           *)
(***************************************************************************)
\* The sections of the page that yielded a record.
yielding(results) == {i \in 1..Len(results) : ~results[i].threw /\ results[i].value # <<>>}

\* The identifiers of the records of a list.
numbersOf(applications) ==
    {applications[k].applicationNumber : k \in 1..Len(applications)}

\* The sections of the page that are the first, on this page and on the pages
\* before it, to yield their identifier.
firstYielding(results, applications) ==
    {i \in yielding(results) :
        /\ results[i].value[1].applicationNumber \notin numbersOf(applications)
        /\ \A j \in yielding(results) :
              j < i => results[j].value[1].applicationNumber
                          # results[i].value[1].applicationNumber}

\* The number of the members of S that are at most i.
rankIn(S, i) == Cardinality({j \in S : j <= i})

C28_FirstOfEachIdentifierIsKept ==
    /\ [](\A j, k \in 1..Len(developmentApplications) :
             developmentApplications[j].applicationNumber
                = developmentApplications[k].applicationNumber => j = k)
    /\ [][pc = "extract" =>
            \A firsts \in {firstYielding(outcomes', developmentApplications)} :
               /\ Len(developmentApplications')
                     = Len(developmentApplications) + Cardinality(firsts)
               /\ SubSeq(developmentApplications', 1, Len(developmentApplications))
                     = developmentApplications
               /\ \A i \in firsts :
                     developmentApplications'[Len(developmentApplications)
                                                 + rankIn(firsts, i)]
                        = outcomes'[i].value[1]]_vars

\* The second page has been parsed: its section yields the identifier of the
\* record kept from the first page with another description, and the list
\* still holds that one record.
C28_Witness ==
    /\ pc = "getDocument" /\ pageIndex = 2
    /\ Len(developmentApplications) = 1
    /\ \E i \in yielding(outcomes) :
          /\ outcomes[i].value[1].applicationNumber
                = developmentApplications[1].applicationNumber
          /\ outcomes[i].value[1] # developmentApplications[1]

(***************************************************************************)
(* C30: when parsePdf returns normally every decode that getDocument       *)
(* created in it has been destroyed, the decode of the iteration that      *)
(* finds the page index at numPages included.                              *)
(***************************************************************************)
C30_NoLiveDecodeOnReturn ==
    pc = "insert" => liveDecodes = {}

====
